---- MODULE Spec2Model ----
(***************************************************************************)
(* Command resolution pipeline of saydo2: text normalisation, the alias   *)
(* index built from tracked_chats.json, the legacy dispatcher             *)
(* agent.execute_command and the modular dispatcher                        *)
(* CommandExecutor.execute with the Telegram actions.                      *)
(*                                                                         *)
(* A Python str is a sequence of symbols.  A symbol is one character of a  *)
(* chat name or one whole word of the command grammar:                     *)
(*   "e" "E"   Cyrillic ie, small and capital                              *)
(*   "yo" "YO" Cyrillic io (ie with diaeresis), small and capital          *)
(*   "m" "M"   any other letter, small and capital                         *)
(*   " " "\t"  whitespace                                                  *)
(* Python None is the one-symbol sequence <<"None">>, which no str equals; *)
(* an Optional[int] is a sequence of length 0 (None) or 1 (the int).       *)
(***************************************************************************)
EXTENDS Integers, Sequences, FiniteSets, TLC

VARIABLES
    impl,              \* "legacy" (agent.py) | "modular" (core/executor.py, utils/chat_resolver.py)
    pc,                \* position in the code
    disable_whitelist, \* DISABLE_WHITELIST / the disable_whitelist argument
    config,            \* config.json: the "drivers" object
    tracked,           \* tracked_chats.json: the list under "tracked"
    user_text,         \* the utterance handed to execute_command
    cmd,               \* the parsed command: intent, target, message, driver
    alias_map,         \* normalized alias -> canonical
    result_index_map,  \* canonical -> Optional[int]
    user_target,       \* the argument of the last resolve_chat call
    canonical,         \* the chat the command acts on
    result_index,      \* Optional[int] handed to open_chat
    requests,          \* the payloads posted to the automation daemon, in order
    responses,         \* the outcome of each of those calls, in order
    result,            \* the value returned, once pc = "done"
    logged,            \* the utterances handed to log_unrecognized_command
    written,           \* the lines appended to the two log files, in order
    call,              \* a function called on its own: its name and arguments
    ret                \* the values it returned, in order

vars ==
    <<impl, pc, disable_whitelist, config, tracked, user_text, cmd, alias_map,
      result_index_map, user_target, canonical, result_index, requests, responses,
      result, logged, written, call, ret>>

\* no function is called on its own
call_vars == <<call, ret>>

None == <<"None">>
NoInt == <<>>

----------------------------------------------------------------------------
(* str primitives used by norm *)

Whitespace == {" ", "\t"}

RECURSIVE lstrip(_)
lstrip(s) == IF s # <<>> /\ Head(s) \in Whitespace THEN lstrip(Tail(s)) ELSE s

RECURSIVE rstrip(_)
rstrip(s) ==
    IF s # <<>> /\ s[Len(s)] \in Whitespace THEN rstrip(SubSeq(s, 1, Len(s) - 1)) ELSE s

strip(s) == rstrip(lstrip(s))

lower_char(ch) ==
    CASE ch = "E" -> "e"
      [] ch = "YO" -> "yo"
      [] ch = "M" -> "m"
      [] OTHER -> ch

lower(s) == [i \in 1..Len(s) |-> lower_char(s[i])]

replace(s, old, new) == [i \in 1..Len(s) |-> IF s[i] = old THEN new ELSE s[i]]

\* re.sub(r"\s+", " ", s)
RECURSIVE sub_spaces(_)
sub_spaces(s) ==
    IF s = <<>> THEN <<>>
    ELSE IF Head(s) \in Whitespace THEN <<" ">> \o sub_spaces(lstrip(s))
    ELSE <<Head(s)>> \o sub_spaces(Tail(s))

\* `s or ""`
or_empty(s) == IF s = None THEN <<>> ELSE s

----------------------------------------------------------------------------
(* utils/chat_resolver.py *)

\* norm that folds the diaeresis before it lowers the case
norm_fold_first(s) == sub_spaces(lower(replace(strip(or_empty(s)), "yo", "e")))

\* norm without the replacement of io by ie
norm_keep_yo(s) == sub_spaces(lower(strip(or_empty(s))))

norm(s) == sub_spaces(replace(lower(strip(or_empty(s))), "yo", "e"))

\* an assignment that keeps the value a key already has
put_if_absent(m, k, v) == [x \in DOMAIN m \cup {k} |-> IF x \in DOMAIN m THEN m[x] ELSE v]

\* dict assignment m[k] = v
Put(m, k, v) == [x \in DOMAIN m \cup {k} |-> IF x = k THEN v ELSE m[x]]

\* dict.get(k), None when the key is missing
Get(m, k, default) == IF k \in DOMAIN m THEN m[k] ELSE default

EmptyDict == <<>>

resolve_chat(target, amap) == Get(amap, norm(target), None)

\* the inner loop `for a in aliases: alias_map[norm(a)] = canon`
RECURSIVE register_aliases(_, _, _)
register_aliases(amap, aliases, canon) ==
    IF aliases = <<>> THEN amap
    ELSE register_aliases(Put(amap, norm(Head(aliases)), canon),
                          Tail(aliases), canon)

\* build_item without the canonical registered as an alias of itself
build_item_no_self(maps, item) ==
    IF item.canonical = <<>> THEN maps
    ELSE [alias_map |-> register_aliases(maps.alias_map, item.aliases, item.canonical),
          result_index_map |->
              IF "result_index" \in DOMAIN item
              THEN Put(maps.result_index_map, item.canonical, item.result_index)
              ELSE maps.result_index_map]

\* one iteration of `for item in tracked`, on the pair of maps
build_item(maps, item) ==
    IF item.canonical = <<>> THEN maps
    ELSE [alias_map |->
              register_aliases(Put(maps.alias_map, norm(item.canonical), item.canonical),
                               item.aliases, item.canonical),
          result_index_map |->
              IF "result_index" \in DOMAIN item
              THEN Put(maps.result_index_map, item.canonical, item.result_index)
              ELSE maps.result_index_map]

RECURSIVE build_from(_, _)
build_from(maps, items) ==
    IF items = <<>> THEN maps ELSE build_from(build_item(maps, Head(items)), Tail(items))

build_alias_map(items) ==
    build_from([alias_map |-> EmptyDict, result_index_map |-> EmptyDict], items)

----------------------------------------------------------------------------
(* agent.py: the legacy copies of the same three functions *)

agent_norm(s) == sub_spaces(replace(lower(strip(or_empty(s))), "yo", "e"))

agent_resolve_chat(target, amap) ==
    LET key == agent_norm(target)
    IN  IF key = <<>> THEN None ELSE Get(amap, key, None)

\* `a_n = norm(str(a)); if a_n: alias_map[a_n] = canonical`
RECURSIVE agent_register_aliases(_, _, _)
agent_register_aliases(amap, aliases, canon) ==
    IF aliases = <<>> THEN amap
    ELSE LET a_n == agent_norm(Head(aliases))
         IN  agent_register_aliases(IF a_n # <<>> THEN Put(amap, a_n, canon) ELSE amap,
                                    Tail(aliases), canon)

agent_build_item(maps, item) ==
    IF item.canonical = <<>> THEN maps
    ELSE [alias_map |->
              agent_register_aliases(
                  Put(maps.alias_map, agent_norm(item.canonical), item.canonical),
                  item.aliases, item.canonical),
          result_index_map |->
              IF "result_index" \in DOMAIN item
              THEN Put(maps.result_index_map, item.canonical, item.result_index)
              ELSE maps.result_index_map]

RECURSIVE agent_build_from(_, _)
agent_build_from(maps, items) ==
    IF items = <<>> THEN maps
    ELSE agent_build_from(agent_build_item(maps, Head(items)), Tail(items))

agent_build_alias_map(items) ==
    agent_build_from([alias_map |-> EmptyDict, result_index_map |-> EmptyDict], items)

----------------------------------------------------------------------------
(* Python's re on symbol sequences.  A pattern is a sequence of elements;  *)
(* re_match tries the choices of each element in the order the             *)
(* backtracking matcher tries them and returns the first overall match.    *)
(* The words of the command grammar are single symbols:                    *)
(*   otkroj chat i napishi v chto soobshenie napisat napisatsya otpravj    *)
(*   otpravi telegram_ru telegramm telegramma telegram iz bufera obmena    *)
(*   vstavj vstavi k ko, and the marks laquo raquo quot colon comma.       *)

Sym(x) == [t |-> "sym", s |-> x]
Alt(alts) == [t |-> "alt", alts |-> alts]
WS1 == [t |-> "ws", min |-> 1]
WS0 == [t |-> "ws", min |-> 0]
Lazy(name) == [t |-> "any", greedy |-> FALSE, name |-> name]
Greedy(name) == [t |-> "any", greedy |-> TRUE, name |-> name]
End == [t |-> "end"]
Begin == [t |-> "begin"]

NoMatch == [ok |-> FALSE]
NoCaps == [ok |-> FALSE, start |-> 0, end |-> 0, target |-> None, msg |-> None, rest |-> None]

\* the length of the run of whitespace that starts at pos
RECURSIVE WsRun(_, _)
WsRun(t, pos) ==
    IF pos <= Len(t) /\ t[pos] \in Whitespace THEN 1 + WsRun(t, pos + 1) ELSE 0

\* the first choice if it matched, else what backtracking tries next
or_else(r, next) == IF r.ok THEN r ELSE next

\* a named group's capture recorded; a repetition outside a group has no name
capture(caps, name, s) == IF name = "" THEN caps ELSE [caps EXCEPT ![name] = s]

RECURSIVE re_match(_, _, _, _)
RECURSIVE re_alt(_, _, _, _, _)
RECURSIVE re_rep(_, _, _, _, _, _, _, _)

re_match(pat, t, pos, caps) ==
    IF pat = <<>> THEN [caps EXCEPT !.ok = TRUE, !.end = pos]
    ELSE LET e == Head(pat)
             rest == Tail(pat)
         IN  CASE e.t = "sym" ->
                    IF pos <= Len(t) /\ t[pos] = e.s
                    THEN re_match(rest, t, pos + 1, caps) ELSE NoMatch
               [] e.t = "alt" -> re_alt(e.alts, rest, t, pos, caps)
               [] e.t = "ws" -> re_rep(rest, t, pos, caps, WsRun(t, pos), e.min, -1, "")
               [] e.t = "any" ->
                    IF e.greedy
                    THEN re_rep(rest, t, pos, caps, Len(t) + 1 - pos, 1, -1, e.name)
                    ELSE re_rep(rest, t, pos, caps, 1, Len(t) + 1 - pos, 1, e.name)
               [] e.t = "end" ->
                    IF pos = Len(t) + 1 THEN re_match(rest, t, pos, caps) ELSE NoMatch
               [] e.t = "begin" ->
                    IF pos = 1 THEN re_match(rest, t, pos, caps) ELSE NoMatch

\* alternatives, first to last, each followed by the rest of the pattern
re_alt(alts, rest, t, pos, caps) ==
    IF alts = <<>> THEN NoMatch
    ELSE or_else(re_match(Head(alts) \o rest, t, pos, caps),
                 re_alt(Tail(alts), rest, t, pos, caps))

\* a repetition taking k symbols, then k + step, ... up to last
re_rep(rest, t, pos, caps, k, last, step, name) ==
    IF (step < 0 /\ k < last) \/ (step > 0 /\ k > last) THEN NoMatch
    ELSE or_else(re_match(rest, t, pos + k, capture(caps, name, SubSeq(t, pos, pos + k - 1))),
                 re_rep(rest, t, pos, caps, k + step, last, step, name))

RECURSIVE re_search_from(_, _, _)
re_search_from(pat, t, start) ==
    IF start > Len(t) + 1 THEN NoMatch
    ELSE or_else(re_match(pat, t, start, [NoCaps EXCEPT !.start = start]),
                 re_search_from(pat, t, start + 1))

re_search(pat, t) == re_search_from(pat, t, 1)

\* t without the span of the match r
without(t, r) == IF r.ok THEN SubSeq(t, 1, r.start - 1) \o SubSeq(t, r.end, Len(t)) ELSE t

\* re.sub(pat, "", t) for a pattern that matches at most once in t
re_sub(pat, t) == without(t, re_search(pat, t))

\* str.split()
RECURSIVE split(_, _)
split(s, word) ==
    IF s = <<>> THEN (IF word = <<>> THEN <<>> ELSE <<word>>)
    ELSE IF Head(s) \in Whitespace
         THEN (IF word = <<>> THEN <<>> ELSE <<word>>) \o split(Tail(s), <<>>)
         ELSE split(Tail(s), Append(word, Head(s)))

\* " ".join(words)
RECURSIVE join(_)
join(words) ==
    IF words = <<>> THEN <<>>
    ELSE IF Len(words) = 1 THEN Head(words)
    ELSE Head(words) \o <<" ">> \o join(Tail(words))

OTPRAV == Alt(<< <<Sym("otpravj")>>, <<Sym("otpravi")>> >>)
VSTAV == Alt(<< <<Sym("vstavj")>>, <<Sym("vstavi")>> >>)
NAPISAT == Alt(<< <<Sym("napisat")>>, <<Sym("napisatsya")>> >>)
TELEGRAM ==
    Alt(<< <<Sym("telegram_ru")>>, <<Sym("telegramma")>>, <<Sym("telegramm")>>,
           <<Sym("telegram")>> >>)
BUFERA ==
    Alt(<< <<Sym("bufera")>>, <<Sym("bufera"), Sym(" "), Sym("obmena")>> >>)
QUOTE_OPEN == Alt(<< <<Sym("laquo")>>, <<Sym("quot")>> >>)
QUOTE_CLOSE == Alt(<< <<Sym("raquo")>>, <<Sym("quot")>> >>)

----------------------------------------------------------------------------
(* agent.py: parse_command, the legacy rule cascade *)

P1 ==
    <<Sym("otkroj"), WS1, Sym("chat"), WS1, Lazy("target"), WS1, Sym("i"), WS1,
      Sym("napishi"), WS1, QUOTE_OPEN, Lazy("msg"), QUOTE_CLOSE, WS0, End>>

P2 ==
    <<Sym("napishi"), WS1, Sym("v"), WS1, Lazy("target"), WS0, Sym("colon"), WS0,
      Greedy("msg"), WS0, End>>

P3 ==
    <<Sym("napishi"), WS1, Sym("v"), WS1, Sym("chat"), WS1, Lazy("target"), WS0,
      Sym("colon"), WS0, Greedy("msg"), WS0, End>>

P4 ==
    <<Sym("napishi"), WS1, Sym("v"), WS1, Lazy("target"), WS1, Sym("chto"), WS1,
      Greedy("msg"), WS0, End>>

P4a ==
    <<Sym("napishi"), WS1, Lazy("target"), WS1, Sym("soobshenie"), WS1,
      Greedy("msg"), WS0, End>>

P5 ==
    <<NAPISAT, WS1, Sym("v"), WS1, Sym("chat"), WS1, Lazy("target"), WS0, Alt(<<
      <<Sym("comma")>>, <<>> >>), WS1, Sym("chto"), WS1, Greedy("msg"), WS0, End>>

P5a ==
    <<OTPRAV, WS1, Sym("v"), WS1, TELEGRAM, WS1, Sym("v"), WS1, Lazy("target"), WS1,
      Sym("soobshenie"), WS1, Greedy("msg"), WS0, End>>

P5b ==
    <<OTPRAV, WS1, Sym("v"), WS1, TELEGRAM, WS1, Sym("v"), WS1, Sym("chat"), WS1,
      Lazy("target"), WS1, Sym("soobshenie"), WS1, Greedy("msg"), WS0, End>>

P5c ==
    <<OTPRAV, WS1, Sym("v"), WS1, TELEGRAM, WS1, Lazy("target"), WS1,
      Sym("soobshenie"), WS1, Greedy("msg"), WS0, End>>

P5c1 ==
    <<OTPRAV, WS1, Lazy("target"), WS1, Sym("soobshenie"), WS1, Greedy("msg"), WS0,
      End>>

P5c2 ==
    <<OTPRAV, WS1, Lazy("target"), WS1, Sym("v"), WS1, TELEGRAM, WS1,
      Sym("soobshenie"), WS1, Greedy("msg"), WS0, End>>

PFallback ==
    <<OTPRAV, WS1, Sym("soobshenie"), WS1, Greedy("rest"), WS0, End>>

P5d ==
    <<OTPRAV, WS1, Sym("v"), WS1, TELEGRAM, WS1, Lazy("target"), WS0, End>>

P5f ==
    <<OTPRAV, WS1, Sym("v"), WS1, Lazy("target"), WS1, Sym("soobshenie"), WS1,
      Greedy("msg"), WS0, End>>

P6 ==
    <<OTPRAV, WS1, Sym("iz"), WS1, BUFERA, WS1, Sym("v"), WS1, Lazy("target"), WS0,
      End>>

P7 ==
    <<OTPRAV, WS1, Sym("iz"), WS1, BUFERA, WS1, Sym("v"), WS1, Sym("chat"), WS1,
      Lazy("target"), WS0, End>>

P8 ==
    <<VSTAV, WS1, Sym("v"), WS1, Lazy("target"), WS0, End>>

P9 ==
    <<VSTAV, WS1, Sym("v"), WS1, Sym("chat"), WS1, Lazy("target"), WS0, End>>

\* the patterns of the re.sub calls that clean a captured target
SubLeadV == <<Begin, Sym("v"), WS1>>
SubLeadPreposition ==
    <<Begin, Alt(<< <<Sym("v")>>, <<Sym("k")>>, <<Sym("ko")>> >>), WS1>>
SubTrailVTelegram == <<WS1, Sym("v"), WS1, TELEGRAM, WS0, End>>
SubTrailTelegram == <<WS1, Alt(<< <<Sym("v"), WS1>>, <<>> >>), TELEGRAM, WS0, End>>
SubLeadTelegram == <<Begin, WS0, TELEGRAM, WS1>>

NoIntent == "None"
Unmatched == [matched |-> FALSE, intent |-> NoIntent, target |-> None, message |-> None]
Parsed(intent, target, message) ==
    [matched |-> TRUE, intent |-> intent, target |-> target, message |-> message]

\* `if m:` around the return of a rule
IfMatch(m, parsed) == IF m.ok THEN parsed ELSE Unmatched

\* `if target:` around the return of a rule
IfTarget(intent, target, message) ==
    IF target # <<>> THEN Parsed(intent, target, message) ELSE Unmatched

\* `if target and msg:` around the return of the word-count rule
IfBoth(intent, target, message) ==
    IF target # <<>> /\ message # <<>> THEN Parsed(intent, target, strip(message))
    ELSE Unmatched

\* m.group(n).strip() of a group the pattern may not have
group(s) == IF s = None THEN None ELSE strip(s)

\* a rule that returns its two captures stripped
PlainMatch(intent, m) == IfMatch(m, Parsed(intent, strip(m.target), group(m.msg)))

Plain(intent, pat, t) == PlainMatch(intent, re_search(pat, t))

\* the name the word-count rule takes from the words after the verb
fallback_target(words) ==
    IF Len(words) >= 3 THEN join(SubSeq(words, 1, 2))
    ELSE IF words # <<>> THEN words[1] ELSE <<>>

\* and the message it takes
fallback_msg(words) ==
    IF Len(words) >= 3 THEN join(SubSeq(words, 3, Len(words)))
    ELSE IF Len(words) >= 2 THEN join(SubSeq(words, 2, Len(words)))
    ELSE <<>>

fallback_words(words) ==
    IfBoth("type_to_chat",
           strip(sub_spaces(re_sub(SubLeadTelegram,
                 re_sub(SubTrailTelegram, re_sub(SubLeadV, fallback_target(words)))))),
           fallback_msg(words))

fallback_match(m) == IfMatch(m, fallback_words(split(strip(m.rest), <<>>)))

\* the word-count rule: one or two words of the rest are the name
fallback_rule(t) == fallback_match(re_search(PFallback, t))

\* the rules that clean the captured name before returning it
rule_strip_preposition(m) ==
    IfMatch(m, Parsed("type_to_chat", re_sub(SubLeadPreposition, strip(m.target)),
                      strip(m.msg)))

rule_strip_v(m) ==
    IfMatch(m, Parsed("type_to_chat", re_sub(SubLeadV, strip(m.target)), strip(m.msg)))

rule_strip_v_telegram(m) ==
    IfMatch(m, Parsed("type_to_chat",
                      strip(re_sub(SubLeadTelegram,
                            re_sub(SubTrailVTelegram, re_sub(SubLeadV, strip(m.target))))),
                      strip(m.msg)))

rule_strip_telegram(m) ==
    IfMatch(m, IfTarget("type_to_chat",
                        strip(sub_spaces(re_sub(SubLeadTelegram,
                              re_sub(SubTrailTelegram, re_sub(SubLeadV, strip(m.target)))))),
                        strip(m.msg)))

rule_collapse(m) ==
    IfMatch(m, IfTarget("type_to_chat", strip(sub_spaces(strip(m.target))), strip(m.msg)))

rule_open_only(m) ==
    IfMatch(m, Parsed("open_chat_only", re_sub(SubLeadV, strip(m.target)), None))

rule_not_telegram(m) ==
    IF m.ok /\ lower(strip(m.target)) \notin {<<"telegram">>, <<"telegram_ru">>, <<"telegramma">>}
    THEN Parsed("type_to_chat", strip(m.target), strip(m.msg))
    ELSE Unmatched

\* the last rule's result instead of the first's
last_of(r, later) == IF later.matched THEN later ELSE r

\* the first rule's result if it matched, else the later rules'
first_of(r, later) == IF r.matched THEN r ELSE later

AgentRules == 21

\* the n-th rule of parse_command, in the order of the code
agent_rule(n, t) ==
    CASE n = 1 -> Plain("open_and_type", P1, t)
      [] n = 2 -> Plain("type_to_chat", P2, t)
      [] n = 3 -> Plain("type_to_chat", P3, t)
      [] n = 4 -> Plain("type_to_chat", P4, t)
      [] n = 5 -> rule_strip_preposition(re_search(P4a, t))
      [] n = 6 -> Plain("type_to_chat", P5, t)
      [] n = 7 -> Plain("type_to_chat", P5a, t)
      [] n = 8 -> Plain("type_to_chat", P5b, t)
      [] n = 9 -> rule_strip_v(re_search(P5c, t))
      [] n = 10 -> rule_strip_v_telegram(re_search(P5c1, t))
      [] n = 11 -> Plain("type_to_chat", P5c2, t)
      [] n = 12 -> rule_strip_telegram(re_search(P5c1, t))
      [] n = 13 -> fallback_rule(t)
      [] n = 14 -> rule_collapse(re_search(P5c2, t))
      [] n = 15 -> rule_open_only(re_search(P5d, t))
      [] n = 16 -> rule_strip_preposition(re_search(P5c1, t))
      [] n = 17 -> rule_not_telegram(re_search(P5f, t))
      [] n = 18 -> Plain("paste_to_chat", P6, t)
      [] n = 19 -> Plain("paste_to_chat", P7, t)
      [] n = 20 -> Plain("paste_to_chat", P8, t)
      [] n = 21 -> Plain("paste_to_chat", P9, t)

RECURSIVE first_rule(_, _)
first_rule(n, t) ==
    IF n > AgentRules THEN Unmatched
    ELSE first_of(agent_rule(n, t), first_rule(n + 1, t))

\* `t = (text or "").strip()`, then the rules in turn
parse_command(text) == first_rule(1, strip(or_empty(text)))

\* the pattern of the n-th rule's re.search
agent_pattern(n) ==
    <<P1, P2, P3, P4, P4a, P5, P5a, P5b, P5c, P5c1, P5c2, P5c1, PFallback, P5c2, P5d, P5c1,
      P5f, P6, P7, P8, P9>>[n]

----------------------------------------------------------------------------
(* parsers/telegram_parser.py: TelegramCommandParser.parse *)

POpen ==
    <<Sym("otkroj"), WS1, Alt(<< <<Sym("chat"), WS1>>, <<>> >>), Lazy("target"), WS0, End>>

SubLeadChat == <<Begin, WS0, Sym("chat"), WS1>>

\* `sub in t`
contains(t, sub) ==
    \E i \in 1..(Len(t) - Len(sub) + 1) : SubSeq(t, i, i + Len(sub) - 1) = sub

parser_strip_v(m) ==
    IfMatch(m, Parsed("send_message", re_sub(SubLeadV, strip(m.target)), strip(m.msg)))

\* the paste rule returning the intent of the message rules
parser_paste_as_send(m) ==
    IfMatch(m, Parsed("send_message", re_sub(SubLeadChat, strip(m.target)), None))

parser_strip_chat(m) ==
    IfMatch(m, Parsed("paste_to_chat", re_sub(SubLeadChat, strip(m.target)), None))

parser_open_only(m, t) ==
    IF m.ok /\ ~contains(lower(t), <<"i", " ", "napishi">>)
    THEN Parsed("open_chat_only", strip(m.target), None)
    ELSE Unmatched

ParserRules == 7

\* the n-th rule of parse, in the order of the code
parser_rule(n, t) ==
    CASE n = 1 -> Plain("send_message", P1, t)
      [] n = 2 -> Plain("send_message", P2, t)
      [] n = 3 -> Plain("send_message", P3, t)
      [] n = 4 -> Plain("send_message", P4, t)
      [] n = 5 -> parser_strip_v(re_search(P4a, t))
      [] n = 6 -> parser_strip_chat(re_search(P6, t))
      [] n = 7 -> parser_open_only(re_search(POpen, t), t)

parser_pattern(n) == <<P1, P2, P3, P4, P4a, P6, POpen>>[n]

RECURSIVE parser_first_rule(_, _)
parser_first_rule(n, t) ==
    IF n > ParserRules THEN Unmatched
    ELSE first_of(parser_rule(n, t), parser_first_rule(n + 1, t))

\* `t = (text or "").strip()`, `if not t: return None`, then the rules in turn
parse(text) ==
    IF strip(or_empty(text)) = <<>> THEN Unmatched
    ELSE parser_first_rule(1, strip(or_empty(text)))

----------------------------------------------------------------------------
(* Whitelist configurations: every list of items holding at most k names   *)
(* (canonicals and aliases together), over a set of names and a set of     *)
(* values of the "result_index" key (an empty sequence is JSON null).    *)

MaxNames == 3

\* an item without the "result_index" key, and one with it
NewItem(c) == [canonical |-> c, aliases |-> <<>>]
NewItemIndexed(c, ri) == [canonical |-> c, aliases |-> <<>>, result_index |-> ri]

AddAlias(w, a) ==
    [w EXCEPT ![Len(w)] = [@ EXCEPT !.aliases = Append(@, a)]]

RECURSIVE Whitelists(_, _, _)
Whitelists(names, settings, k) ==
    IF k = 0 THEN {<<>>}
    ELSE LET prev == Whitelists(names, settings, k - 1)
         IN  prev
             \cup {Append(w, NewItem(c)) : w \in prev, c \in names}
             \cup {Append(w, NewItemIndexed(c, ri)) : w \in prev, c \in names, ri \in settings}
             \cup {AddAlias(w, a) : w \in prev \ {<<>>}, a \in names}

\* names a tracked_chats.json may hold: empty, blank, colliding after norm,
\* padded and with a run of whitespace inside
ResolverNames ==
    {<<>>, <<" ">>, <<"e">>, <<"YO">>, <<"m">>, <<" ", "M", "\t", " ", "e">>}

\* what a caller may ask for: the names above and respellings of them
ResolverTargets ==
    ResolverNames \cup {None, <<"E">>, <<"yo", " ">>, <<"m", " ", "e">>, <<"m", " ", "YO">>,
                       <<"m", "e">>}

----------------------------------------------------------------------------
(* drivers/manager.py, parsers/base.py *)

\* _load_config's default when config.json is missing
DefaultConfig == [telegram |-> [enabled |-> TRUE]]

DRIVER_CLASSES == {"telegram"}

\* DriverManager.get_driver: is there a driver of this name
get_driver(name, drivers) ==
    /\ name \in DOMAIN drivers
    /\ drivers[name].enabled
    /\ name \in DRIVER_CLASSES

ParsedCommand(intent, target, message, driver) ==
    [matched |-> TRUE, intent |-> intent, target |-> target, message |-> message,
     driver |-> driver]

NoCommand ==
    [matched |-> FALSE, intent |-> NoIntent, target |-> None, message |-> None,
     driver |-> "telegram"]

\* the ParsedCommand that parse builds in a rule that returns
parsed_command(r) ==
    IF r.matched THEN ParsedCommand(r.intent, r.target, r.message, "telegram") ELSE NoCommand

----------------------------------------------------------------------------
(* The alias index on its own: load, build, resolve *)

Build(tr) == IF impl = "legacy" THEN agent_build_alias_map(tr) ELSE build_alias_map(tr)

Resolve(t, amap) ==
    IF impl = "legacy" THEN agent_resolve_chat(t, amap) ELSE resolve_chat(t, amap)

InitResolver ==
    /\ impl \in {"legacy", "modular"}
    /\ pc = "config"
    /\ tracked \in Whitelists(ResolverNames, {}, MaxNames)
    /\ alias_map = EmptyDict
    /\ result_index_map = EmptyDict
    /\ user_target = None
    /\ canonical = None
    /\ disable_whitelist = FALSE
    /\ config = DefaultConfig
    /\ user_text = None
    /\ cmd = NoCommand
    /\ result_index = NoInt
    /\ requests = <<>>
    /\ responses = <<>>
    /\ result = FALSE
    /\ logged = <<>>
    /\ written = <<>>
    /\ call = <<>>
    /\ ret = <<>>

dispatch_vars ==
    <<disable_whitelist, config, user_text, cmd, result_index, requests, responses,
      result, logged>>

BuildAliasMap ==
    /\ pc = "config"
    /\ alias_map' = Build(tracked).alias_map
    /\ result_index_map' = Build(tracked).result_index_map
    /\ pc' = "built"
    /\ UNCHANGED <<call_vars, written, impl, tracked, user_target, canonical, dispatch_vars>>

ResolveChat ==
    /\ pc \in {"built", "resolved"}
    /\ \E t \in ResolverTargets :
          /\ user_target' = t
          /\ canonical' = Resolve(t, alias_map)
    /\ pc' = "resolved"
    /\ UNCHANGED <<call_vars, written, impl, tracked, alias_map, result_index_map, dispatch_vars>>

NextResolver == BuildAliasMap \/ ResolveChat

SpecResolver == InitResolver /\ [][NextResolver]_vars

----------------------------------------------------------------------------
(* The automation daemon: hs_call / TelegramDriver._call_hammer             *)

\* how one POST to the daemon can end
DaemonOutcomes == {"ok", "not_ok", "http_error", "non_json", "request_failed"}

\* resp.get("ok", False) / DriverResult.ok
Ok(outcome) == outcome = "ok"

\* an open request whose query is the target as it was parsed
open_chat_payload_target(query, ri) ==
    IF ri # NoInt
    THEN [cmd |-> "open_chat", query |-> cmd.target, auto_select |-> TRUE, result_index |-> ri[1]]
    ELSE [cmd |-> "open_chat", query |-> cmd.target, auto_select |-> TRUE]

open_chat_payload(query, ri) ==
    IF ri # NoInt
    THEN [cmd |-> "open_chat", query |-> query, auto_select |-> TRUE, result_index |-> ri[1]]
    ELSE [cmd |-> "open_chat", query |-> query, auto_select |-> TRUE]

\* a send request that asks the daemon to send at once
send_payload_now(text) == [cmd |-> "send", text |-> text, use_clipboard |-> TRUE, draft |-> FALSE]

send_payload(text) == [cmd |-> "send", text |-> text, use_clipboard |-> TRUE, draft |-> TRUE]

paste_payload == [cmd |-> "paste", draft |-> TRUE]

----------------------------------------------------------------------------
(* agent.py: execute_command, statement by statement *)

clean_one_line(text) ==
    strip(sub_spaces(replace(replace(or_empty(text), "\r", " "), "\n", " ")))

\* log_unrecognized_command without the entry
log_nothing(log, command) == log

log_unrecognized_command(log, command) == Append(log, command)

\* the `with open(path, "a")` of a log and its f.write: the line is in the
\* file unless the open or the write fails
append_line(file, line, fails) == IF fails THEN file ELSE Append(file, line)

\* a log write whose failure is not caught
log_raises_on_failure(fails) == fails

\* `except Exception: pass` around a log write: nothing is raised
log_raises(fails) == FALSE

\* the entry of unrecognized_commands.log
log_entry(command, full_text) ==
    [file |-> "unrecognized_commands.log", command |-> command, full_text |-> full_text]

\* the second argument of execute_command: the whole recognized text in
\* voice mode, the command itself in text mode
full_recognized_text == IF call # <<>> /\ call.fn = "main" THEN call.text ELSE user_text

\* the whitelist check with the rejection left out
agent_resolution_unenforced(target, amap, rimap, disable) ==
    LET c == agent_resolve_chat(target, amap)
    IN  IF c = None \/ c = <<>>
        THEN [rejected |-> FALSE, canonical |-> target, result_index |-> <<0>>]
        ELSE [rejected |-> FALSE, canonical |-> c, result_index |-> Get(rimap, c, NoInt)]

\* the whitelist check with no index for a name used as it is
agent_resolution_no_default(target, amap, rimap, disable) ==
    LET c == agent_resolve_chat(target, amap)
    IN  IF c = None \/ c = <<>>
        THEN IF disable
             THEN [rejected |-> FALSE, canonical |-> target, result_index |-> NoInt]
             ELSE [rejected |-> TRUE, canonical |-> c, result_index |-> NoInt]
        ELSE [rejected |-> FALSE, canonical |-> c, result_index |-> Get(rimap, c, NoInt)]

\* resolve_chat and the whitelist check that follows it
agent_resolution(target, amap, rimap, disable) ==
    LET c == agent_resolve_chat(target, amap)
    IN  IF c = None \/ c = <<>>
        THEN IF disable
             THEN [rejected |-> FALSE, canonical |-> target, result_index |-> <<0>>]
             ELSE [rejected |-> TRUE, canonical |-> c, result_index |-> NoInt]
        ELSE [rejected |-> FALSE, canonical |-> c, result_index |-> Get(rimap, c, NoInt)]

\* the check of resp1 that lets a failed open through
open_reply_ignored(outcome) == "opened"

\* `if not resp1.get("ok", False): return False`
open_reply(outcome) == IF Ok(outcome) THEN "opened" ELSE "done"

\* a failed send or paste that opens the chat again, once
last_reply_reopen(outcome, reqs) ==
    IF ~Ok(outcome) /\ Len(reqs) < 4 THEN [pc |-> "resolved", result |-> FALSE]
    ELSE [pc |-> "done", result |-> Ok(outcome)]

\* the check of resp2 and the return that follows it
last_reply(outcome, reqs) == [pc |-> "done", result |-> Ok(outcome)]

Legacy == impl = "legacy"

Return(value) == pc' = "done" /\ result' = value

ExecuteCommand_Parse ==
    /\ Legacy /\ pc = "start"
    /\ LET p == parse_command(user_text)
       IN  IF ~p.matched
           THEN /\ logged' = log_unrecognized_command(logged, user_text)
                /\ \E fails \in BOOLEAN :
                      /\ written' = append_line(written,
                                                log_entry(user_text, full_recognized_text),
                                                fails)
                      /\ IF log_raises(fails) THEN pc' = "raised" /\ UNCHANGED result
                         ELSE Return(FALSE)
                /\ UNCHANGED cmd
           ELSE /\ cmd' = ParsedCommand(p.intent, p.target, p.message, "telegram")
                /\ pc' = "parsed"
                /\ UNCHANGED <<logged, written, result>>
    /\ UNCHANGED <<call_vars, impl, disable_whitelist, config, tracked, user_text, alias_map,
                   result_index_map, user_target, canonical, result_index, requests,
                   responses>>

\* load_tracked_chats raises when the file is missing or malformed
ExecuteCommand_Load ==
    /\ Legacy /\ pc = "parsed"
    /\ \/ /\ Return(FALSE)
          /\ UNCHANGED <<alias_map, result_index_map>>
       \/ /\ alias_map' = agent_build_alias_map(tracked).alias_map
          /\ result_index_map' = agent_build_alias_map(tracked).result_index_map
          /\ pc' = "loaded"
          /\ UNCHANGED result
    /\ UNCHANGED <<call_vars, written, impl, disable_whitelist, config, tracked, user_text, cmd, user_target,
                   canonical, result_index, requests, responses, logged>>

ExecuteCommand_Resolve ==
    /\ Legacy /\ pc = "loaded"
    /\ LET r == agent_resolution(cmd.target, alias_map, result_index_map, disable_whitelist)
       IN  /\ user_target' = cmd.target
           /\ canonical' = r.canonical
           /\ result_index' = r.result_index
           /\ IF r.rejected THEN Return(FALSE) ELSE pc' = "resolved" /\ UNCHANGED result
    /\ UNCHANGED <<call_vars, written, impl, disable_whitelist, config, tracked, user_text, cmd, alias_map,
                   result_index_map, requests, responses, logged>>

ExecuteCommand_Open ==
    /\ Legacy /\ pc = "resolved"
    /\ requests' = Append(requests, open_chat_payload(canonical, result_index))
    /\ pc' = "wait_open"
    /\ UNCHANGED <<call_vars, written, impl, disable_whitelist, config, tracked, user_text, cmd, alias_map,
                   result_index_map, user_target, canonical, result_index, responses,
                   result, logged>>

\* the branch on the intent after the chat is open
ExecuteCommand_Intent ==
    /\ Legacy /\ pc = "opened"
    /\ IF cmd.intent = "open_chat_only"
       THEN Return(TRUE) /\ UNCHANGED requests
       ELSE IF cmd.intent = "paste_to_chat"
       THEN /\ requests' = Append(requests, paste_payload)
            /\ pc' = "wait_last"
            /\ UNCHANGED result
       ELSE IF clean_one_line(cmd.message) = <<>>
       THEN Return(FALSE) /\ UNCHANGED requests
       ELSE /\ requests' = Append(requests, send_payload(clean_one_line(cmd.message)))
            /\ pc' = "wait_last"
            /\ UNCHANGED result
    /\ UNCHANGED <<call_vars, written, impl, disable_whitelist, config, tracked, user_text, cmd, alias_map,
                   result_index_map, user_target, canonical, result_index, responses, logged>>

\* hs_call returns from the open_chat request
HsCall_OpenReturns ==
    /\ Legacy /\ pc = "wait_open"
    /\ \E outcome \in DaemonOutcomes :
          /\ responses' = Append(responses, outcome)
          /\ pc' = open_reply(outcome)
          /\ result' = FALSE
    /\ UNCHANGED <<call_vars, written, impl, disable_whitelist, config, tracked, user_text, cmd, alias_map,
                   result_index_map, user_target, canonical, result_index, requests, logged>>

\* hs_call returns from the send or paste request
HsCall_LastReturns ==
    /\ Legacy /\ pc = "wait_last"
    /\ \E outcome \in DaemonOutcomes :
          /\ responses' = Append(responses, outcome)
          /\ pc' = last_reply(outcome, requests).pc
          /\ result' = last_reply(outcome, requests).result
    /\ UNCHANGED <<call_vars, written, impl, disable_whitelist, config, tracked, user_text, cmd, alias_map,
                   result_index_map, user_target, canonical, result_index, requests, logged>>

----------------------------------------------------------------------------
(* core/executor.py and actions/telegram_actions.py *)

TELEGRAM_ACTIONS == {"open_chat_only", "send_message", "paste_to_chat"}

\* Python truth of an Optional[str]
Truthy(s) == s # None /\ s # <<>>

\* resolve_chat and the whitelist check of CommandExecutor.execute
executor_resolution(target, amap, rimap, disable) ==
    LET c == resolve_chat(target, amap)
    IN  IF ~Truthy(c)
        THEN IF disable
             THEN [rejected |-> FALSE, canonical |-> target, result_index |-> <<0>>]
             ELSE [rejected |-> TRUE, canonical |-> c, result_index |-> NoInt]
        ELSE [rejected |-> FALSE, canonical |-> c, result_index |-> Get(rimap, c, NoInt)]

\* Action.validate of the three Telegram actions
validate(intent, target, message) ==
    /\ Truthy(target)
    /\ intent = "send_message" => Truthy(message)

\* an action that goes on after a failed open_chat
open_result_ignored(outcome) == "opened"

\* `if not open_result.ok: return open_result`
open_result(outcome) == IF Ok(outcome) THEN "opened" ELSE "done"

Modular == impl = "modular"

Executor_GetDriver ==
    /\ Modular /\ pc = "parsed"
    /\ IF get_driver(cmd.driver, config) THEN pc' = "driver" /\ UNCHANGED result
       ELSE Return(FALSE)
    /\ UNCHANGED <<call_vars, written, impl, disable_whitelist, config, tracked, user_text, cmd, alias_map,
                   result_index_map, user_target, canonical, result_index, requests,
                   responses, logged>>

Executor_Resolve ==
    /\ Modular /\ pc = "driver"
    /\ LET r == executor_resolution(cmd.target, alias_map, result_index_map,
                                    disable_whitelist)
       IN  /\ user_target' = cmd.target
           /\ canonical' = r.canonical
           /\ result_index' = r.result_index
           /\ IF r.rejected THEN Return(FALSE) ELSE pc' = "resolved" /\ UNCHANGED result
    /\ UNCHANGED <<call_vars, written, impl, disable_whitelist, config, tracked, user_text, cmd, alias_map,
                   result_index_map, requests, responses, logged>>

\* the lookup of the action, its validate and its open_chat call
Action_Execute ==
    /\ Modular /\ pc = "resolved"
    /\ IF cmd.intent \in TELEGRAM_ACTIONS /\ validate(cmd.intent, canonical, cmd.message)
       THEN /\ requests' = Append(requests, open_chat_payload(canonical, result_index))
            /\ pc' = "wait_open"
            /\ UNCHANGED result
       ELSE Return(FALSE) /\ UNCHANGED requests
    /\ UNCHANGED <<call_vars, written, impl, disable_whitelist, config, tracked, user_text, cmd, alias_map,
                   result_index_map, user_target, canonical, result_index, responses, logged>>

\* _call_hammer returns from the open_chat request
Driver_OpenReturns ==
    /\ Modular /\ pc = "wait_open"
    /\ \E outcome \in DaemonOutcomes :
          /\ responses' = Append(responses, outcome)
          /\ pc' = open_result(outcome)
          /\ result' = FALSE
    /\ UNCHANGED <<call_vars, written, impl, disable_whitelist, config, tracked, user_text, cmd, alias_map,
                   result_index_map, user_target, canonical, result_index, requests, logged>>

\* what each action does once the chat is open
Action_AfterOpen ==
    /\ Modular /\ pc = "opened"
    /\ IF cmd.intent = "open_chat_only"
       THEN Return(TRUE) /\ UNCHANGED requests
       ELSE /\ requests' = Append(requests, IF cmd.intent = "send_message"
                                           THEN send_payload(cmd.message)
                                           ELSE paste_payload)
            /\ pc' = "wait_last"
            /\ UNCHANGED result
    /\ UNCHANGED <<call_vars, written, impl, disable_whitelist, config, tracked, user_text, cmd, alias_map,
                   result_index_map, user_target, canonical, result_index, responses, logged>>

\* _call_hammer returns from the send or paste request
Driver_LastReturns ==
    /\ Modular /\ pc = "wait_last"
    /\ \E outcome \in DaemonOutcomes :
          /\ responses' = Append(responses, outcome)
          /\ Return(Ok(outcome))
    /\ UNCHANGED <<call_vars, written, impl, disable_whitelist, config, tracked, user_text, cmd, alias_map,
                   result_index_map, user_target, canonical, result_index, requests, logged>>

----------------------------------------------------------------------------
(* One command, from the utterance or the ParsedCommand to the value returned *)

MaxTracked == 2

\* canonical names and aliases of the whitelist: they collide after norm
DispatchNames == {<<"e">>, <<"YO">>}

\* values of the "result_index" key: JSON null and an int that is not the default
DispatchSettings == {NoInt, <<1>>}

\* a name the whitelist can hold, respelled, and one it cannot
DispatchTargets == {<<"E">>, <<"m">>}

Say(words) == join(words)

\* utterances: one per intent, one with a blank message, three no rule matches
Utterances ==
    UNION {{ Say(<<<<"otpravj">>, <<"v">>, <<"telegram_ru">>, x>>),
             Say(<<<<"napishi">>, <<"v">>, x \o <<"colon">>, <<"m">>>>),
             Say(<<<<"otpravj">>, <<"iz">>, <<"bufera">>, <<"v">>, x>>),
             Say(<<<<"otkroj">>, <<"chat">>, x, <<"i">>, <<"napishi">>, <<"laquo", " ", "raquo">>>>),
             Say(<<<<"otkroj">>, <<"chat">>, x>>) } : x \in DispatchTargets}
    \cup {<<>>, Say(<<<<"napishi">>, <<"v">>, <<"colon">>, <<"m">>>>)}

\* ParsedCommands the executor may be handed by a caller that built them itself
Commands ==
    {ParsedCommand(i, t, m, "telegram") :
        i \in TELEGRAM_ACTIONS \cup {"type_to_chat"},
        t \in DispatchTargets \cup {<<>>},
        m \in {None, <<"m">>}}
    \cup {ParsedCommand("open_chat_only", None, None, "telegram"),
          ParsedCommand("send_message", <<"E">>, <<>>, "telegram"),
          ParsedCommand("send_message", <<"E">>, <<"m">>, "chrome")}

Configs == {DefaultConfig, [telegram |-> [enabled |-> FALSE]]}

\* one command handed to one dispatcher, under a whitelist of the given ones
InitOver(whitelists) ==
    /\ impl \in {"legacy", "modular"}
    /\ disable_whitelist \in BOOLEAN
    /\ tracked \in whitelists
    /\ IF Legacy
       THEN /\ pc = "start"
            /\ user_text \in Utterances
            /\ cmd = NoCommand
            /\ config = DefaultConfig
            /\ alias_map = EmptyDict
            /\ result_index_map = EmptyDict
       ELSE /\ pc = "parsed"
            /\ \/ user_text = None /\ cmd \in Commands
               \/ /\ user_text \in Utterances
                  /\ parse(user_text).matched
                  /\ cmd = parsed_command(parse(user_text))
            /\ config \in Configs
            /\ alias_map = build_alias_map(tracked).alias_map
            /\ result_index_map = build_alias_map(tracked).result_index_map
    /\ user_target = None
    /\ canonical = None
    /\ result_index = NoInt
    /\ requests = <<>>
    /\ responses = <<>>
    /\ result = FALSE
    /\ logged = <<>>
    /\ written = <<>>
    /\ call = <<>>
    /\ ret = <<>>

Init == InitOver(Whitelists(DispatchNames, DispatchSettings, MaxTracked))

Next ==
    \/ ExecuteCommand_Parse
    \/ ExecuteCommand_Load
    \/ ExecuteCommand_Resolve
    \/ ExecuteCommand_Open
    \/ HsCall_OpenReturns
    \/ ExecuteCommand_Intent
    \/ HsCall_LastReturns
    \/ Executor_GetDriver
    \/ Executor_Resolve
    \/ Action_Execute
    \/ Driver_OpenReturns
    \/ Action_AfterOpen
    \/ Driver_LastReturns

Spec == Init /\ [][Next]_vars

Positions ==
    {"start", "parsed", "loaded", "driver", "resolved", "wait_open", "opened", "wait_last",
     "done"}

\* the command is at a statement and moves to another one
Advance == pc # "done" /\ pc' \in Positions /\ pc' # pc

\* every call made returns and the interpreter runs the next statement: a
\* command that has not returned does not stay where it is for ever
FairSpec == Spec /\ WF_pc(Advance)

\* whitelists whose entries have an empty or a blank canonical name, with
\* aliases that the targets of the commands spell
EnforceWhitelists ==
    { <<>>,
      <<NewItem(<<"e">>)>>,
      <<[canonical |-> <<>>, aliases |-> << <<"E">>, <<"m">> >>]>>,
      <<[canonical |-> <<" ">>, aliases |-> << <<"M">> >>]>>,
      <<[canonical |-> <<"YO">>, aliases |-> << <<"m">> >>],
        [canonical |-> <<>>, aliases |-> << <<"e">> >>]>>,
      <<[canonical |-> <<>>, aliases |-> << <<"e">> >>], NewItemIndexed(<<"m", " ", "e">>, <<1>>)>> }

InitEnforce == InitOver(EnforceWhitelists)

\* the dispatchers over those whitelists
SpecEnforce == InitEnforce /\ [][Next]_vars

----------------------------------------------------------------------------
(* Properties of one command *)

\* what the whitelist on disk resolves the parsed target to
Resolution == Resolve(cmd.target, Build(tracked).alias_map)

Unresolved == cmd.matched /\ ~Truthy(Resolution)

Returned == pc = "done"

\* C1: with the whitelist enforced, a command whose target resolves to no
\* alias posts nothing to the daemon, at any point, and returns False.
C1_NoRequestWhenRejected ==
    (~disable_whitelist /\ Unresolved) => (requests = <<>> /\ (Returned => ~result))

\* a rejected command has returned: its target was looked up and is not listed
C1_Witness ==
    /\ ~disable_whitelist /\ Unresolved /\ Returned
    /\ user_target = cmd.target /\ Truthy(cmd.target)
    /\ tracked # <<>>

\* C2: an utterance no rule matches makes execute_command return False with
\* nothing posted to the daemon, and the utterance is handed to the logger.
C2_UnmatchedFailsAndLogs ==
    (Legacy /\ ~parse_command(user_text).matched) =>
        /\ requests = <<>>
        /\ pc \in {"start", "done"}
        /\ Returned => (~result /\ logged = <<user_text>>)

\* an utterance of several words that no rule matches has been refused
C2_Witness ==
    /\ Legacy /\ Returned /\ ~cmd.matched
    /\ Len(user_text) > 1 /\ logged = <<user_text>>

\* C3: when the open_chat call fails, for whatever reason, the command has
\* returned False and that call is the only one it made.
C3_FailedOpenReturns ==
    (responses # <<>> /\ ~Ok(responses[1])) =>
        (Returned /\ ~result /\ Len(requests) = 1 /\ Len(responses) = 1)

\* the daemon could not be reached when a message was to be typed
C3_Witness ==
    /\ responses = <<"request_failed">> /\ Returned
    /\ cmd.intent \in {"type_to_chat", "send_message"}

\* C4: the calls of one command are a prefix of open, send or of open,
\* paste, and the second call is made only after the first returned ok.
C4_RequestsArePrefix ==
    /\ Len(requests) <= 2
    /\ Len(responses) <= Len(requests)
    /\ requests # <<>> => requests[1].cmd = "open_chat"
    /\ Len(requests) = 2 =>
          /\ requests[2].cmd \in {"send", "paste"}
          /\ responses # <<>> /\ Ok(responses[1])

\* the chat was opened and the clipboard pasted
C4_Witness ==
    /\ Len(requests) = 2 /\ requests[2].cmd = "paste" /\ Returned /\ result

\* C5: a command that made at least one call returns True exactly when its
\* last call returned ok.
C5_ResultIsLastStep ==
    (Returned /\ requests # <<>>) => (result <=> Ok(responses[Len(responses)]))

\* the stages of a command
Phase ==
    CASE pc = "start" -> "START"
      [] pc \in {"parsed", "loaded", "driver"} -> "PARSED"
      [] pc \in {"resolved", "wait_open"} -> "RESOLVED"
      [] pc \in {"opened", "wait_last"} -> "OPENED"
      [] pc = "done" -> IF result THEN "DONE" ELSE "FAILED"

\* a step stays in its stage, enters the next one, or fails
Forward(from, to) ==
    \/ to = from
    \/ from = "START" /\ to \in {"PARSED", "FAILED"}
    \/ from = "PARSED" /\ to \in {"RESOLVED", "FAILED"}
    \/ from = "RESOLVED" /\ to \in {"OPENED", "FAILED"}
    \/ from = "OPENED" /\ to \in {"DONE", "FAILED"}

Terminal == Phase \in {"DONE", "FAILED"}

C7_VerbatimWhenDisabled ==
    (disable_whitelist /\ Unresolved /\ requests # <<>>) =>
        requests[1] = [cmd |-> "open_chat", query |-> cmd.target, auto_select |-> TRUE,
                       result_index |-> 0]

\* a name that is not listed was sent to the daemon
C7_Witness ==
    /\ disable_whitelist /\ Unresolved /\ requests # <<>>
    /\ cmd.target = <<"m">> /\ tracked # <<>>

\* the entry of a canonical name: the one loaded last
Entry(c) ==
    tracked[CHOOSE i \in 1..Len(tracked) :
                /\ tracked[i].canonical = c
                /\ \A j \in (i + 1)..Len(tracked) : tracked[j].canonical # c]

\* the entry sets "result_index" to an int
Configures(item) == "result_index" \in DOMAIN item /\ item.result_index # NoInt

\* C8: for a target resolved through the whitelist, the open_chat call has a
\* result_index exactly when the entry of the canonical name sets one, and
\* then it is the value set.
C8_IndexIffConfigured ==
    (cmd.matched /\ Truthy(Resolution) /\ requests # <<>>) =>
        /\ "result_index" \in DOMAIN requests[1] <=> Configures(Entry(Resolution))
        /\ Configures(Entry(Resolution)) =>
              requests[1].result_index = Entry(Resolution).result_index[1]

----------------------------------------------------------------------------
(* Names compared by what they spell: the words of a name, letter by       *)
(* letter, without regard to case or to the diaeresis of io.              *)

Fold(ch) ==
    CASE ch \in {"e", "E", "yo", "YO"} -> "e"
      [] ch \in {"m", "M"} -> "m"
      [] OTHER -> ch

RECURSIVE Words(_, _)
Words(s, word) ==
    IF s = <<>> THEN (IF word = <<>> THEN <<>> ELSE <<word>>)
    ELSE IF Head(s) \in Whitespace
         THEN (IF word = <<>> THEN <<>> ELSE <<word>>) \o Words(Tail(s), <<>>)
         ELSE Words(Tail(s), Append(word, Fold(Head(s))))

SameName(x, y) == Words(x, <<>>) = Words(y, <<>>)

Blank(x) == Words(x, <<>>) = <<>>

Listed(i) == tracked[i].canonical # <<>>

\* a later item of another canonical carries the name, as canonical or alias
Shadowed(i, name) ==
    \E j \in (i + 1)..Len(tracked) :
        /\ Listed(j)
        /\ tracked[j].canonical # tracked[i].canonical
        /\ \/ SameName(tracked[j].canonical, name)
           \/ \E k \in DOMAIN tracked[j].aliases : SameName(tracked[j].aliases[k], name)

\* C9 as claimed: for every item with a non-empty canonical, in every whitelist,
\* resolving the canonical name returns that canonical name.
C9_SelfAliasEveryWhitelist ==
    pc = "resolved" =>
        \A i \in DOMAIN tracked :
            (Listed(i) /\ user_target = tracked[i].canonical) => canonical = user_target

\* C9 amended: resolving the canonical of an item returns that canonical unless a
\* later item of another canonical carries a name with the same normalized form,
\* or (agent.py only) the canonical is blank.
C9_SelfAliasUnlessShadowed ==
    pc = "resolved" =>
        \A i \in DOMAIN tracked :
            ( /\ Listed(i)
              /\ user_target = tracked[i].canonical
              /\ ~Shadowed(i, user_target)
              /\ impl = "legacy" => ~Blank(user_target) )
            => canonical = user_target

C9_Witness ==
    /\ pc = "resolved"
    /\ Len(tracked) = 2
    /\ Listed(2)
    /\ tracked[2].canonical # tracked[1].canonical
    /\ user_target = tracked[1].canonical
    /\ user_target = <<" ", "M", "\t", " ", "e">>
    /\ canonical = user_target

Spelling(t, a) == t = a \/ t = norm(a) \/ SameName(t, a)

\* C10 as claimed: for every alias a declared for canonical c, resolving a, norm(a)
\* or any respelling of a (case, io for ie, whitespace) returns c.
C10_AliasEveryWhitelist ==
    pc = "resolved" =>
        \A i \in DOMAIN tracked : \A k \in DOMAIN tracked[i].aliases :
            (Listed(i) /\ Spelling(user_target, tracked[i].aliases[k]))
            => canonical = tracked[i].canonical

\* C10 amended: the same, unless a later item of another canonical carries a name
\* with the same normalized form, or (agent.py only) the alias is blank.
C10_AliasUnlessShadowed ==
    pc = "resolved" =>
        \A i \in DOMAIN tracked : \A k \in DOMAIN tracked[i].aliases :
            ( /\ Listed(i)
              /\ Spelling(user_target, tracked[i].aliases[k])
              /\ ~Shadowed(i, tracked[i].aliases[k])
              /\ impl = "legacy" => ~Blank(tracked[i].aliases[k]) )
            => canonical = tracked[i].canonical

C10_Witness ==
    /\ pc = "resolved"
    /\ Len(tracked) = 1
    /\ tracked[1].canonical = <<"m">>
    /\ tracked[1].aliases = << <<" ", "M", "\t", " ", "e">> >>
    /\ user_target = <<"m", " ", "YO">>
    /\ canonical = <<"m">>

----------------------------------------------------------------------------
(* Collisions in the alias index *)

\* the item registers the key: through its canonical, or through an alias
\* (agent.py does not register an alias whose key is empty)
Registers(i, key) ==
    /\ Listed(i)
    /\ \/ norm(tracked[i].canonical) = key
       \/ \E k \in DOMAIN tracked[i].aliases :
             /\ norm(tracked[i].aliases[k]) = key
             /\ impl = "legacy" => key # <<>>

Indexed == pc \in {"built", "resolved"}

\* C11: a key that several items register is mapped to the canonical of the
\* item loaded last among them, and the index is built whatever the collisions.
C11_LastLoadedWins ==
    Indexed =>
        \A i \in DOMAIN tracked : \A key \in {norm(n) : n \in ResolverNames} :
            (Registers(i, key) /\ \A j \in (i + 1)..Len(tracked) : ~Registers(j, key))
            => (key \in DOMAIN alias_map /\ alias_map[key] = tracked[i].canonical)

\* an alias of the second item collides with the canonical of the first
C11_Witness ==
    /\ Indexed
    /\ Len(tracked) = 2
    /\ tracked[1].canonical = <<"YO">>
    /\ tracked[2].canonical = <<"m">>
    /\ tracked[2].aliases = << <<"e">> >>
    /\ alias_map[<<"e">>] = <<"m">>

----------------------------------------------------------------------------
(* norm called on its own, and again on what it returned *)

MaxLen == 3

Letters == {"e", "E", "yo", "YO", "m", "M"}

\* the strings of at most n symbols
RECURSIVE Strings(_, _)
Strings(alphabet, n) ==
    IF n = 0 THEN {<<>>}
    ELSE Strings(alphabet, n - 1)
         \cup {Append(x, ch) : x \in Strings(alphabet, n - 1), ch \in alphabet}

\* the dispatcher and the alias index are not in use
Unused ==
    /\ disable_whitelist = FALSE
    /\ config = DefaultConfig
    /\ tracked = <<>>
    /\ user_text = None
    /\ cmd = NoCommand
    /\ alias_map = EmptyDict
    /\ result_index_map = EmptyDict
    /\ user_target = None
    /\ canonical = None
    /\ result_index = NoInt
    /\ requests = <<>>
    /\ responses = <<>>
    /\ result = FALSE
    /\ logged = <<>>
    /\ written = <<>>

unused_vars ==
    <<disable_whitelist, config, tracked, user_text, cmd, alias_map, result_index_map,
      user_target, canonical, result_index, requests, responses, result, logged, written>>

\* the norm of the implementation in use
Norm(x) == IF impl = "legacy" THEN agent_norm(x) ELSE norm(x)

InitNorm ==
    /\ impl \in {"legacy", "modular"}
    /\ pc = "call"
    /\ call \in {[fn |-> "norm", s |-> x] : x \in Strings(Letters \cup Whitespace, MaxLen) \cup {None}}
    /\ ret = <<>>
    /\ Unused

CallNorm ==
    /\ pc = "call"
    /\ ret' = <<Norm(call.s)>>
    /\ pc' = "returned"
    /\ UNCHANGED <<impl, call, unused_vars>>

CallNormAgain ==
    /\ pc = "returned"
    /\ ret' = Append(ret, Norm(ret[1]))
    /\ pc' = "returned_again"
    /\ UNCHANGED <<impl, call, unused_vars>>

NextNorm == CallNorm \/ CallNormAgain

SpecNorm == InitNorm /\ [][NextNorm]_vars

\* the canonical names of the whitelist that are not empty
Canonicals == {tracked[i].canonical : i \in DOMAIN tracked} \ {<<>>, None}

Opens == {i \in DOMAIN requests : requests[i].cmd = "open_chat"}

\* C26: with the whitelist enforced, the query of every open request is the
\* canonical name of an entry of the whitelist whose canonical is not empty,
\* never the target as the user gave it.
C26_EnforcedQueryIsCanonical ==
    ~disable_whitelist =>
        \A i \in Opens :
            /\ requests[i].query \in Canonicals
            /\ requests[i].query # cmd.target \/ cmd.target \in Canonicals

\* a chat was opened under a canonical name that the target only aliases, in
\* a whitelist that also has an entry with an empty canonical name
C26_Witness ==
    /\ ~disable_whitelist /\ Opens # {}
    /\ requests[1].query # cmd.target
    /\ \E i \in DOMAIN tracked : tracked[i].canonical = <<>>

\* C27: every send request and every paste request carries draft = true, and
\* every send request carries use_clipboard = true.
C27_DraftsOnly ==
    \A i \in DOMAIN requests :
        /\ requests[i].cmd \in {"send", "paste"} =>
              "draft" \in DOMAIN requests[i] /\ requests[i].draft = TRUE
        /\ requests[i].cmd = "send" =>
              "use_clipboard" \in DOMAIN requests[i] /\ requests[i].use_clipboard = TRUE

\* a message was posted for a name used as it is, with the whitelist off
C27_Witness ==
    /\ disable_whitelist /\ Unresolved
    /\ Len(requests) = 2 /\ requests[2].cmd = "send" /\ requests[2].text # <<>>

\* C12: norm returns a string for every string and for None, the empty
\* string for None and for the empty string, and returns its own result
\* unchanged.
C12_NormIdempotentTotal ==
    /\ ret # <<>> =>
          /\ ret[1] # None
          /\ \A i \in DOMAIN ret[1] : ret[1][i] \in Letters \cup Whitespace
          /\ call.s \in {None, <<>>} => ret[1] = <<>>
    /\ Len(ret) = 2 => ret[2] = ret[1]

\* a padded name in capitals with a diaeresis went through norm twice
C12_Witness ==
    /\ call.s = <<" ", "YO", "\t">>
    /\ ret = << <<"e">>, <<"e">> >>

----------------------------------------------------------------------------
(* The parsers on their own: one rule of the cascade at a time *)

ParserNames == {<<"e">>, <<"YO", " ", "m">>}

\* utterances for every rule of both cascades, for rules whose pattern matches
\* and whose guard rejects, for a blank message, and for texts of two rules
ParserTexts ==
    UNION {{ Say(<<<<"otkroj">>, <<"chat">>, x, <<"i">>, <<"napishi">>, <<"laquo", "m", "raquo">>>>),
             Say(<<<<"otkroj">>, <<"chat">>, x, <<"i">>, <<"napishi">>, <<"quot", " ", "quot">>>>),
             Say(<<<<"otkroj">>, <<"chat">>, x, <<"i">>, <<"napishi">>, <<"m">>>>),
             Say(<<<<"otkroj">>, <<"chat">>, x>>),
             Say(<<<<"otkroj">>, x>>),
             Say(<<<<"napishi">>, <<"v">>, x \o <<"colon">>, <<"m">>>>),
             Say(<<<<"napishi">>, <<"v">>, <<"chat">>, x, <<"colon">>, <<"m">>>>),
             Say(<<<<"napishi">>, <<"v">>, <<"chat">>, x \o <<"colon">>, <<"m">>>>),
             Say(<<<<"napishi">>, <<"v">>, x, <<"chto">>, <<"m">>>>),
             Say(<<<<"napishi">>, <<"v">>, x, <<"soobshenie">>, <<"m">>>>),
             Say(<<<<"napishi">>, x, <<"soobshenie">>, <<"m">>>>),
             Say(<<<<"napisat">>, <<"v">>, <<"chat">>, x \o <<"comma">>, <<"chto">>, <<"m">>>>),
             Say(<<<<"otpravj">>, <<"v">>, <<"telegram_ru">>, <<"v">>, x, <<"soobshenie">>, <<"m">>>>),
             Say(<<<<"otpravi">>, <<"v">>, <<"telegram">>, x, <<"soobshenie">>, <<"m">>>>),
             Say(<<<<"otpravj">>, x, <<"v">>, <<"telegram">>, <<"soobshenie">>, <<"m">>>>),
             Say(<<<<"otpravj">>, <<"v">>, x, <<"soobshenie">>, <<"m">>>>),
             Say(<<<<"otpravj">>, <<"v">>, <<"telegram_ru">>, x>>),
             Say(<<<<"otpravj">>, <<"soobshenie">>, x, <<"m">>>>),
             Say(<<<<"otpravj">>, <<"soobshenie">>, x>>),
             Say(<<<<"vstavj">>, <<"v">>, <<"otpravj">>, <<"soobshenie">>, x>>),
             Say(<<<<"vstavj">>, <<"v">>, <<"otpravj">>, <<"soobshenie">>, x, <<"m">>>>),
             Say(<<<<"otpravj">>, <<"iz">>, <<"bufera">>, <<"v">>, x>>),
             Say(<<<<"otpravi">>, <<"iz">>, <<"bufera">>, <<"obmena">>, <<"v">>, <<"chat">>, x>>),
             Say(<<<<"vstavj">>, <<"v">>, x>>),
             Say(<<<<"vstavi">>, <<"v">>, <<"chat">>, x>>),
             <<" ">> \o x } : x \in ParserNames}
    \cup {None, <<>>, <<" ", "\t">>}
    \cup {<<"napishi", " ", " ", " ", "soobshenie", " ", "m">>,
          <<"napishi", " ", "v", " ", " ", " ", "chto", " ", "m">>}

\* the cascade of the implementation in use
Rules == IF impl = "legacy" THEN AgentRules ELSE ParserRules
Rule(n, t) == IF impl = "legacy" THEN agent_rule(n, t) ELSE parser_rule(n, t)
Pattern(n) == IF impl = "legacy" THEN agent_pattern(n) ELSE parser_pattern(n)
Parse(text) == IF impl = "legacy" THEN parse_command(text) ELSE parse(text)

\* `t = (text or "").strip()`
Text == strip(or_empty(call.s))

InitParser ==
    /\ impl \in {"legacy", "modular"}
    /\ pc = "call"
    /\ call \in {[fn |-> "parse", s |-> x, rule |-> 1] : x \in ParserTexts}
    /\ ret = <<>>
    /\ Unused

\* `if m: return ...` of the rule, or on to the next re.search
return_or_next(r) ==
    IF r.matched
    THEN ret' = <<r>> /\ pc' = "returned" /\ UNCHANGED call
    ELSE call' = [call EXCEPT !.rule = @ + 1] /\ UNCHANGED <<ret, pc>>

\* `if not t: return None` of the modular parser
Parse_Empty ==
    /\ pc = "call" /\ call.fn = "parse"
    /\ impl = "modular" /\ Text = <<>>
    /\ ret' = <<Unmatched>>
    /\ pc' = "returned"
    /\ UNCHANGED <<impl, call, unused_vars>>

Parse_Rule ==
    /\ pc = "call" /\ call.fn = "parse"
    /\ impl = "modular" => Text # <<>>
    /\ call.rule <= Rules
    /\ return_or_next(Rule(call.rule, Text))
    /\ UNCHANGED <<impl, unused_vars>>

\* the `return None` after the last rule
Parse_NoRule ==
    /\ pc = "call" /\ call.fn = "parse"
    /\ impl = "modular" => Text # <<>>
    /\ call.rule > Rules
    /\ ret' = <<Unmatched>>
    /\ pc' = "returned"
    /\ UNCHANGED <<impl, call, unused_vars>>

NextParser == Parse_Empty \/ Parse_Rule \/ Parse_NoRule

SpecParser == InitParser /\ [][NextParser]_vars

ParseReturned == pc = "returned" /\ call.fn = "parse"

\* the pattern of rule n is found in the text
Triggers(n) == re_search(Pattern(n), Text).ok

\* rule n returns a command for the text
Fires(n) == Rule(n, Text).matched

\* C13 as stated: the command returned is that of the first rule whose
\* pattern is found in the text, and no command is returned only when no
\* pattern is found.
C13_FirstTriggeredRuleReturns ==
    ParseReturned =>
        IF ret[1].matched
        THEN /\ ret[1] = Rule(call.rule, Text)
             /\ \A n \in 1..Rules : Triggers(n) => call.rule <= n
        ELSE \A n \in 1..Rules : ~Triggers(n)

\* C13 amended: the command returned is that of the first rule whose pattern
\* is found and whose guard on the captures accepts them; no rule is tried
\* after it, and no command is returned only when no rule accepts.
C13_FirstFiringRuleReturns ==
    /\ call # <<>> /\ call.fn = "parse" =>
          \A n \in 1..Rules : n < call.rule => ~Fires(n)
    /\ ParseReturned =>
          /\ IF ret[1].matched
             THEN call.rule <= Rules /\ ret[1] = Rule(call.rule, Text)
             ELSE \A n \in 1..Rules : ~Fires(n)
          /\ ret[1] = Parse(call.s)

\* a text that two rules accept was parsed by the earlier one
C13_Witness ==
    /\ ParseReturned
    /\ call.rule < Rules
    /\ \E n \in (call.rule + 1)..Rules : Fires(n) /\ Rule(n, Text) # ret[1]

\* the intents whose command carries a message
MessageIntents == {"open_and_type", "type_to_chat", "send_message"}

\* C14: parse never returns a command to send a message whose message is
\* empty: a rule that captures a blank message is passed over.
C14_NoEmptyMessage ==
    ParseReturned /\ ret[1].intent \in MessageIntents => ret[1].message \notin {None, <<>>}

\* 'напиши в чат X: M'
WriteToChat(X, M) == Say(<<<<"napishi">>, <<"v">>, <<"chat">>, X \o <<"colon">>, M>>)

\* C24: for 'напиши в чат X: M' parse returns a command to send a message
\* whose target is X, without the word 'чат', and whose message is M.
C24_WriteToChatTargetsName ==
    \A X \in ParserNames :
        ParseReturned /\ call.s = WriteToChat(X, <<"m">>) =>
            /\ ret[1].matched
            /\ ret[1].intent \in MessageIntents
            /\ ret[1].target = X
            /\ ret[1].message = <<"m">>

\* C28: every command parse returns has a target that is not empty after
\* trimming, whatever the text, runs of whitespace between the trigger words
\* included.
C28_TargetNeverEmpty ==
    ParseReturned /\ ret[1].matched => strip(or_empty(ret[1].target)) # <<>>

\* the place of the word-count rule in the cascade of agent.py
FallbackRule == 13

\* C15: when the word-count rule and a structured rule both accept a text,
\* the result returned is the structured rule's.
C15_StructuredBeforeFallback ==
    (/\ ParseReturned /\ impl = "legacy"
     /\ Fires(FallbackRule)
     /\ \E n \in (1..AgentRules) \ {FallbackRule} : Fires(n))
    => (/\ call.rule # FallbackRule
        /\ ret[1] # agent_rule(FallbackRule, Text))

\* 'отправь из буфера в T'
PasteUtterance(T) == Say(<<<<"otpravj">>, <<"iz">>, <<"bufera">>, <<"v">>, T>>)

\* the chat was found in the whitelist and the open_chat call succeeded
Opened == Truthy(canonical) /\ responses # <<>> /\ Ok(responses[1])

----------------------------------------------------------------------------
(* ocr_find_chat.py, ocr_find_chrome_tab.py: the matchers of the OCR helpers *)

\* a float as the fraction it is computed from
Frac(n, d) == [n |-> n, d |-> d]
Gt(a, b) == a.n * b.d > b.n * a.d
Plus(a, b) == Frac(a.n * b.d + b.n * a.d, a.d * b.d)
Times(a, b) == Frac(a.n * b.n, a.d * b.d)

Max(a, b) == IF a >= b THEN a ELSE b
Abs(a) == IF a >= 0 THEN a ELSE 0 - a

normalize_text(text) == sub_spaces(replace(lower(strip(or_empty(text))), "yo", "e"))

\* the loop over ocr_text.split('\n') that keeps the lines of two characters or more
RECURSIVE screen_lines(_)
screen_lines(raw) ==
    IF raw = <<>> THEN <<>>
    ELSE IF Len(strip(Head(raw))) > 1 THEN <<strip(Head(raw))>> \o screen_lines(Tail(raw))
    ELSE screen_lines(Tail(raw))

\* set(text.replace(" ", ""))
chars(text) == {text[i] : i \in DOMAIN text} \ {" "}

\* Strategy 1 of find_chat_in_screenshot
RECURSIVE chat_exact(_, _, _)
chat_exact(lines, target_norm, i) ==
    IF i > Len(lines) THEN -1
    ELSE IF normalize_text(lines[i]) = target_norm THEN i - 1
    ELSE chat_exact(lines, target_norm, i + 1)

\* Strategy 2 without its check of the lengths
contains_any_length(line_norm, target_norm) ==
    contains(line_norm, target_norm) \/ contains(target_norm, line_norm)

\* the test of Strategy 2: one text holds the other and the lengths are within 2
contains_close(line_norm, target_norm) ==
    /\ contains(line_norm, target_norm) \/ contains(target_norm, line_norm)
    /\ Abs(Len(line_norm) - Len(target_norm)) <= 2

\* Strategy 2
RECURSIVE chat_substring(_, _, _)
chat_substring(lines, target_norm, i) ==
    IF i > Len(lines) THEN -1
    ELSE IF contains_close(normalize_text(lines[i]), target_norm) THEN i - 1
    ELSE chat_substring(lines, target_norm, i + 1)

chat_score(target_chars, line_chars) ==
    Frac(Cardinality(target_chars \cap line_chars), Max(Cardinality(target_chars), 1))

\* `if score >= best_score` in place of `>`
chat_better_or_equal(score, best_score) ==
    ~Gt(best_score, score) /\ Gt(score, Frac(7, 10))

\* `if score > best_score and score > 0.7`
chat_better(score, best_score) == Gt(score, best_score) /\ Gt(score, Frac(7, 10))

\* Strategy 3
RECURSIVE chat_fuzzy(_, _, _, _, _)
chat_fuzzy(lines, target_chars, i, best_match_idx, best_score) ==
    IF i > Len(lines) THEN best_match_idx
    ELSE IF chat_better(chat_score(target_chars, chars(normalize_text(lines[i]))), best_score)
    THEN chat_fuzzy(lines, target_chars, i + 1, i - 1,
                    chat_score(target_chars, chars(normalize_text(lines[i]))))
    ELSE chat_fuzzy(lines, target_chars, i + 1, best_match_idx, best_score)

\* the last strategy that finds a line
found_or_later(idx, next) == IF next >= 0 THEN next ELSE idx

\* the first strategy that finds a line
found_or(idx, next) == IF idx >= 0 THEN idx ELSE next

\* find_chat_in_screenshot from the OCR text on
find_chat(lines, target_norm) ==
    found_or(chat_exact(lines, target_norm, 1),
             found_or(chat_substring(lines, target_norm, 1),
                      chat_fuzzy(lines, chars(target_norm), 1, -1, Frac(0, 1))))

find_chat_in_screenshot(raw, target_name) ==
    find_chat(screen_lines(raw), normalize_text(target_name))

calculate_similarity(text1, text2) ==
    IF normalize_text(text1) = normalize_text(text2) THEN Frac(1, 1)
    ELSE IF \/ contains(normalize_text(text2), normalize_text(text1))
            \/ contains(normalize_text(text1), normalize_text(text2))
    THEN Frac(9, 10)
    ELSE IF chars(normalize_text(text1)) = {} \/ chars(normalize_text(text2)) = {}
    THEN Frac(0, 1)
    ELSE Frac(Cardinality(chars(normalize_text(text1)) \cap chars(normalize_text(text2))),
              Cardinality(chars(normalize_text(text1)) \cup chars(normalize_text(text2))))

\* Strategy 2 of find_tab_in_screenshot: every word of the keywords is in the line
all_keywords_present(keyword_words, line_norm) ==
    \A k \in DOMAIN keyword_words : contains(line_norm, keyword_words[k])

keywords_score(keyword_words, line_norm) ==
    Frac(Len(keyword_words), Max(Len(split(line_norm, <<>>)), 1))

word_matches(keyword_words, line_norm) ==
    Cardinality({k \in DOMAIN keyword_words :
                    \/ contains(line_norm, keyword_words[k])
                    \/ contains(keyword_words[k], line_norm)})

combined_score(similarity, matches, words) ==
    IF words > 0
    THEN Plus(Times(similarity, Frac(6, 10)), Times(Frac(matches, words), Frac(4, 10)))
    ELSE similarity

RECURSIVE tab_scan(_, _, _, _, _, _)

\* `if score > best_score`, with `and combined_score > 0.5` in Strategy 3
tab_keep_best(lines, keywords_norm, keyword_words, i, best_match_idx, best_score, score, floor) ==
    IF Gt(score, best_score) /\ Gt(score, floor)
    THEN tab_scan(lines, keywords_norm, keyword_words, i + 1, i - 1, score)
    ELSE tab_scan(lines, keywords_norm, keyword_words, i + 1, best_match_idx, best_score)

\* the body of the loop for one line
tab_line(lines, keywords_norm, keyword_words, i, best_match_idx, best_score, line_norm) ==
    IF line_norm = keywords_norm THEN <<i - 1, Frac(1, 1)>>
    ELSE IF all_keywords_present(keyword_words, line_norm)
    THEN tab_keep_best(lines, keywords_norm, keyword_words, i, best_match_idx, best_score,
                       keywords_score(keyword_words, line_norm), best_score)
    ELSE tab_keep_best(lines, keywords_norm, keyword_words, i, best_match_idx, best_score,
                       combined_score(calculate_similarity(keywords_norm, line_norm),
                                      word_matches(keyword_words, line_norm),
                                      Len(keyword_words)),
                       Frac(1, 2))

tab_scan(lines, keywords_norm, keyword_words, i, best_match_idx, best_score) ==
    IF i > Len(lines)
    THEN (IF best_match_idx >= 0 THEN <<best_match_idx, best_score>> ELSE <<-1, Frac(0, 1)>>)
    ELSE tab_line(lines, keywords_norm, keyword_words, i, best_match_idx, best_score,
                  normalize_text(lines[i]))

find_tab(lines, keywords_norm) ==
    IF lines = <<>> THEN <<-1, Frac(0, 1)>>
    ELSE tab_scan(lines, keywords_norm, split(keywords_norm, <<>>), 1, -1, Frac(0, 1))

find_tab_in_screenshot(raw, keywords) ==
    find_tab(screen_lines(raw), normalize_text(keywords))

----------------------------------------------------------------------------
(* The matchers on their own *)

MaxLines == 3

\* ten letters, for a score of exactly 0.7
TenLetters == <<"a", "b", "c", "d", "f", "g", "h", "j", "k", "l">>

\* what OCR may read off a row of the screen: a name in two spellings, the
\* name inside longer rows, noise, rows that share letters with a target
ScreenRows ==
    {<<>>, <<"e">>, <<"E", "m">>, <<" ", "e", "m", "\t">>, <<"e", "m", "a">>,
     <<"e", "m", " ", "a", "b", "c">>, <<"a", "b", "c", "d">>, <<"a", "b", "c", "x">>,
     <<"l", "k", "j", "h", "g", "f", "d", "x", "y", "z">>,
     <<"l", "k", "j", "h", "g", "f", "d", "c", "y", "z">>}

ScreenTargets ==
    {<<>>, <<"e", "M">>, <<"YO", "m", " ">>, <<"e", "m", " ", "m">>, <<"d", "c", "b", "a">>,
     <<"d", " ", "c", "b", "a">>, TenLetters}

RECURSIVE Screens(_)
Screens(k) ==
    IF k = 0 THEN {<<>>}
    ELSE Screens(k - 1) \cup {Append(x, row) : x \in Screens(k - 1), row \in ScreenRows}

InitMatcher ==
    /\ impl = "modular"
    /\ pc = "call"
    /\ call \in {[fn |-> f, lines |-> x, s |-> t] :
                    f \in {"find_chat", "find_tab"}, x \in Screens(MaxLines), t \in ScreenTargets}
    /\ ret = <<>>
    /\ Unused

FindChat ==
    /\ pc = "call" /\ call.fn = "find_chat"
    /\ ret' = <<find_chat_in_screenshot(call.lines, call.s)>>
    /\ pc' = "returned"
    /\ UNCHANGED <<impl, call, unused_vars>>

FindTab ==
    /\ pc = "call" /\ call.fn = "find_tab"
    /\ ret' = find_tab_in_screenshot(call.lines, call.s)
    /\ pc' = "returned"
    /\ UNCHANGED <<impl, call, unused_vars>>

NextMatcher == FindChat \/ FindTab

SpecMatcher == InitMatcher /\ [][NextMatcher]_vars

\* the list the matcher scans, and the indices of the lines equal to the
\* target after normalisation
Lines == screen_lines(call.lines)
ExactLines == {i \in DOMAIN Lines : normalize_text(Lines[i]) = normalize_text(call.s)}
MatcherReturned == pc = "returned" /\ call.fn \in {"find_chat", "find_tab"}

\* C17: when some line equals the target after normalisation, both matchers
\* return the lowest index of such a line, the tab matcher with score 1.0.
C17_ExactMatchFirst ==
    MatcherReturned /\ ExactLines # {} =>
        /\ ret[1] + 1 \in ExactLines
        /\ \A i \in ExactLines : ret[1] + 1 <= i
        /\ call.fn = "find_tab" => ret[2] = Frac(1, 1)

\* the exact match is the third line, after a line that contains the target
\* and one that shares its letters
C17_Witness ==
    /\ MatcherReturned /\ ExactLines = {3}
    /\ ret[1] = 2
    /\ contains(normalize_text(Lines[1]), normalize_text(call.s))

\* no kept line is the target or contains it, or is contained in it, within
\* two characters of its length
NoCloseLine ==
    \A i \in DOMAIN Lines :
        /\ normalize_text(Lines[i]) # normalize_text(call.s)
        /\ ~contains_close(normalize_text(Lines[i]), normalize_text(call.s))

\* the letters of the target found in line i, over the letters of the target
Overlap(i) ==
    Frac(Cardinality(chars(normalize_text(call.s)) \cap chars(normalize_text(Lines[i]))),
         Max(Cardinality(chars(normalize_text(call.s))), 1))

Accepted == {i \in DOMAIN Lines : Gt(Overlap(i), Frac(7, 10))}

\* C18: when no line is an exact or containment match, find_chat returns the
\* line of the highest letter-overlap score, the first of them when several
\* have it, if that score is above 0.7, and -1 when no score is above 0.7.
C18_BestOverlapAboveThreshold ==
    (MatcherReturned /\ call.fn = "find_chat" /\ NoCloseLine) =>
        IF Accepted = {} THEN ret[1] = -1
        ELSE /\ ret[1] + 1 \in Accepted
             /\ \A j \in DOMAIN Lines : ~Gt(Overlap(j), Overlap(ret[1] + 1))
             /\ \A j \in 1..ret[1] : Gt(Overlap(ret[1] + 1), Overlap(j))

\* a line with a score of exactly 0.7 was passed over for the first of two
\* lines with 0.8
C18_Witness ==
    /\ MatcherReturned /\ call.fn = "find_chat" /\ NoCloseLine
    /\ Len(Lines) = 3
    /\ Overlap(1) = Frac(7, 10) /\ Overlap(2) = Frac(8, 10) /\ Overlap(3) = Frac(8, 10)
    /\ ret[1] = 1

\* a occurs in b as a run of consecutive characters
Within(a, b) == \E i \in 1..(Len(b) - Len(a) + 1) : SubSeq(b, i, i + Len(a) - 1) = a

\* the lines that hold the target or are held by it, within two characters of its length
CloseLines ==
    {i \in DOMAIN Lines :
        /\ \/ Within(normalize_text(call.s), normalize_text(Lines[i]))
           \/ Within(normalize_text(Lines[i]), normalize_text(call.s))
        /\ Len(normalize_text(Lines[i])) - Len(normalize_text(call.s)) \in -2..2}

\* C23: when no line equals the target after normalisation, find_chat returns
\* the lowest-index line that holds the target or is held by it with lengths
\* within 2, whatever the overlap scores of the other lines are.
C23_CloseContainmentBeforeOverlap ==
    (MatcherReturned /\ call.fn = "find_chat" /\ ExactLines = {} /\ CloseLines # {}) =>
        /\ ret[1] + 1 \in CloseLines
        /\ \A i \in CloseLines : ret[1] + 1 <= i

\* the second line is returned for its containment, after a first line that
\* has every letter of the target and holds it at too great a length
C23_Witness ==
    /\ MatcherReturned /\ call.fn = "find_chat" /\ ExactLines = {}
    /\ CloseLines = {2} /\ ret[1] = 1
    /\ ~Gt(Frac(1, 1), Overlap(1))
    /\ Within(normalize_text(call.s), normalize_text(Lines[1]))

\* C25: find_tab returns a line that is not the keywords themselves only with
\* a score above 0.5, and (-1, 0.0) otherwise.
C25_TabScoreAboveHalf ==
    MatcherReturned /\ call.fn = "find_tab" =>
        \/ ret = <<-1, Frac(0, 1)>>
        \/ ret[1] + 1 \in ExactLines
        \/ ret[1] + 1 \in DOMAIN Lines /\ Gt(ret[2], Frac(1, 2))

\* C19: the score a matcher computes and returns is within [0, 1].
C19_ScoreInUnitInterval ==
    MatcherReturned =>
        IF call.fn = "find_tab"
        THEN 0 <= ret[2].n /\ ret[2].n <= ret[2].d
        ELSE \A i \in DOMAIN Lines : 0 <= Overlap(i).n /\ Overlap(i).n <= Overlap(i).d

----------------------------------------------------------------------------
(* agent.py: hs_call, drivers/telegram.py: TelegramDriver._call_hammer *)

\* the slice [:5000] of the raw body
RawLimit == 5000

Min(a, b) == IF a <= b THEN a ELSE b

\* Python values: a dict with its items, a DriverResult, the other values
\* json.loads can return
Dict(items) == [type |-> "dict", items |-> items]
OtherValue(type) == [type |-> type]
DriverResult(ok, error, data) ==
    [type |-> "DriverResult", ok |-> ok, error |-> error, data |-> data]

\* r.json(): the bodies the daemon sends by its protocol, an object without
\* "ok", and JSON texts that are no object
JsonBodies == {"ok_true", "ok_false", "no_ok", "array", "null"}

json(body) ==
    CASE body = "ok_true" -> Dict([ok |-> TRUE])
      [] body = "ok_false" -> Dict([ok |-> FALSE, error |-> "daemon"])
      [] body = "no_ok" -> Dict([status |-> "done"])
      [] body = "array" -> OtherValue("list")
      [] body = "null" -> OtherValue("NoneType")

\* r.text[:5000], a text being its length
raw(reply) == Min(reply.len, RawLimit)

hs_call(reply) ==
    IF reply.raised THEN Dict([ok |-> FALSE, error |-> "Request failed", url |-> "/cmd"])
    ELSE IF reply.status_code # 200
    THEN Dict([ok |-> FALSE, error |-> "HTTP", url |-> "/cmd", raw |-> raw(reply)])
    ELSE IF reply.body \in JsonBodies THEN json(reply.body)
    ELSE Dict([ok |-> FALSE, error |-> "Non-JSON response", raw |-> raw(reply), url |-> "/cmd"])

\* response.get("ok", False) of a dict
get_ok(response) == "ok" \in DOMAIN response.items /\ response.items.ok

\* response.get("error", "Unknown error")
get_error(response) ==
    IF "error" \in DOMAIN response.items THEN response.items.error ELSE "Unknown error"

non_json(reply) ==
    DriverResult(FALSE, "Non-JSON response", Dict([raw |-> raw(reply), url |-> "/cmd"]))

\* the try block of _call_hammer: response.get raises on what is no dict
call_hammer_json(reply, response) ==
    IF response.type # "dict" THEN non_json(reply)
    ELSE IF get_ok(response) THEN DriverResult(TRUE, None, response)
    ELSE DriverResult(FALSE, get_error(response), response)

call_hammer(reply) ==
    IF reply.raised THEN DriverResult(FALSE, "Request failed", None)
    ELSE IF reply.status_code # 200
    THEN DriverResult(FALSE, "HTTP", Dict([raw |-> raw(reply), url |-> "/cmd"]))
    ELSE IF reply.body \in JsonBodies THEN call_hammer_json(reply, json(reply.body))
    ELSE non_json(reply)

----------------------------------------------------------------------------
(* One call of the daemon on its own *)

\* what the POST can end in: an exception (no connection, timeout) or a reply
\* with a status and a body, short or longer than the slice
Replies ==
    {[raised |-> TRUE, status_code |-> 0, body |-> "none", len |-> 0]}
    \cup {[raised |-> FALSE, status_code |-> st, body |-> b, len |-> n] :
             st \in {200, 404, 500}, b \in JsonBodies \cup {"text"},
             n \in {2, RawLimit, RawLimit + 1}}

Payloads ==
    {open_chat_payload(<<"e">>, NoInt), open_chat_payload(<<"e">>, <<1>>),
     send_payload(<<"m">>), paste_payload}

InitCall ==
    /\ impl \in {"legacy", "modular"}
    /\ pc = "call"
    /\ call \in {[fn |-> "post", payload |-> p, reply |-> r] : p \in Payloads, r \in Replies}
    /\ ret = <<>>
    /\ Unused

HsCall ==
    /\ pc = "call" /\ call.fn = "post" /\ impl = "legacy"
    /\ ret' = <<hs_call(call.reply)>>
    /\ pc' = "returned"
    /\ UNCHANGED <<impl, call, unused_vars>>

CallHammer ==
    /\ pc = "call" /\ call.fn = "post" /\ impl = "modular"
    /\ ret' = <<call_hammer(call.reply)>>
    /\ pc' = "returned"
    /\ UNCHANGED <<impl, call, unused_vars>>

NextCall == HsCall \/ CallHammer

SpecCall == InitCall /\ [][NextCall]_vars

CallReturned == pc = "returned" /\ call.fn = "post"

\* the value returned is a result: a dict of hs_call or a DriverResult
IsResult(v) == v.type \in {"dict", "DriverResult"}

\* the ok its caller reads from it
ResultOk(v) == IF v.type = "dict" THEN get_ok(v) ELSE v.ok

\* the diagnostic of a failure
Diagnostic(v) == IF v.type = "dict" THEN v.items ELSE v.data.items

\* C20: every outcome of the call is a result; its ok is true only for a 200
\* reply whose JSON body has ok true, and false for a failed request, for a
\* status other than 200 and for a body that is not JSON, whose diagnostic
\* holds at most 5000 characters of the body.
C20_EveryOutcomeIsAResult ==
    CallReturned =>
        /\ IsResult(ret[1])
        /\ ResultOk(ret[1]) =>
              ~call.reply.raised /\ call.reply.status_code = 200 /\ call.reply.body = "ok_true"
        /\ (call.reply.raised \/ call.reply.status_code # 200 \/ call.reply.body = "text") =>
              ~ResultOk(ret[1])
        /\ (~call.reply.raised /\ (call.reply.status_code # 200 \/ call.reply.body = "text")) =>
              /\ Diagnostic(ret[1]).raw <= RawLimit
              /\ Diagnostic(ret[1]).raw = Min(call.reply.len, RawLimit)


\* ---------------------------------------------------------------------------
\* The continuous listening mode of agent.py: main() with no argument.
\* `call` holds the loop's own state: the text recognized in this iteration,
\* the number of utterances captured so far and the utterances for which
\* execute_command was called.  requests and responses are those of the
\* command being executed.
\* ---------------------------------------------------------------------------

\* the iterations of the loop that the model follows
MaxCaptures == 2

\* "агент" and its forms, "saydo" and the ways it is recognized, letter by letter
Saydo == <<"s", "a", "y", "d", "o">>
Agent == <<"c_a", "c_g", "e", "c_n", "c_t">>

keywords ==
    << Saydo,
       <<"s", "a", "y", " ", "d", "o">>,
       <<"c_s", "e", "c_j", "c_d", "c_o">>,
       <<"c_s", "c_o", "c_j", "c_d", "c_u">>,
       <<"c_s", "e", "c_j", "c_d", "c_u">>,
       <<"c_s", "e", "c_j", "c_d", "c_o", "c_u">>,
       <<"c_z", "e", "c_j", "c_d", "c_u">>,
       <<"c_s", "e", "c_j", " ", "c_d", "c_o">>,
       <<"c_s", "c_o", "c_j", " ", "c_d", "c_u">>,
       <<"c_s", "e", "c_j", " ", "c_d", "c_u">>,
       <<"c_z", "e", "c_j", " ", "c_d", "c_u">>,
       Agent,
       Agent \o <<"c_a">>,
       Agent \o <<"c_u">>,
       Agent \o <<"e">>,
       Agent \o <<"c_o", "m">>,
       Agent \o <<"c_y">> >>

\* str.find: the first index (from 1) at which sub starts in t, 0 when it does not occur
find(t, sub) ==
    IF \E i \in 1..(Len(t) - Len(sub) + 1) : SubSeq(t, i, i + Len(sub) - 1) = sub
    THEN CHOOSE i \in 1..(Len(t) - Len(sub) + 1) :
            /\ SubSeq(t, i, i + Len(sub) - 1) = sub
            /\ \A j \in 1..(i - 1) : SubSeq(t, j, j + Len(sub) - 1) # sub
    ELSE 0

\* the characters of command.lstrip(" ,.?!;:")
Punctuation == {" ", "comma", "dot", "question", "bang", "semicolon", "colon"}

\* str.lstrip(chars)
RECURSIVE lstrip_chars(_, _)
lstrip_chars(s, chs) == IF s # <<>> /\ Head(s) \in chs THEN lstrip_chars(Tail(s), chs) ELSE s

\* the loop over keywords: the first keyword of the list that text_lower
\* contains, 0 when there is none
keyword_found(text_lower) ==
    IF \E k \in DOMAIN keywords : contains(text_lower, keywords[k])
    THEN CHOOSE k \in DOMAIN keywords :
            /\ contains(text_lower, keywords[k])
            /\ \A j \in 1..(k - 1) : ~contains(text_lower, keywords[j])
    ELSE 0

\* text[keyword_pos + keyword_len:].strip().lstrip(" ,.?!;:"), the position
\* being the one of the keyword in text.lower()
command_after(text, k) ==
    lstrip_chars(strip(SubSeq(text, find(lower(text), keywords[k]) + Len(keywords[k]), Len(text))),
                 Punctuation)

\* a loop that takes the whole text for the command when it holds no keyword
wake_command_unguarded(text) ==
    IF keyword_found(lower(text)) = 0 THEN text ELSE command_after(text, keyword_found(lower(text)))

\* the command the loop executes for a recognized text, <<>> when it executes none
wake_command(text) ==
    IF keyword_found(lower(text)) = 0 THEN <<>> ELSE command_after(text, keyword_found(lower(text)))

\* the line of all_recognized.log
speech_entry(text) == [file |-> "all_recognized.log", text |-> text]

\* what recognize_google may return
ListenTexts ==
    { Say(<<<<"otkroj">>, <<"chat">>, <<"e">>>>),
      Agent,
      Agent \o <<"comma", " ", "bang">>,
      Agent \o <<"comma", " ">> \o Say(<<<<"otkroj">>, <<"chat">>, <<"e">>>>),
      Agent \o <<"c_a", " ">> \o Say(<<<<"otkroj">>, <<"chat">>, <<"e">>>>),
      <<"c_a", "c_g", "E", "c_n", "c_t", " ">> \o Say(<<<<"napishi">>, <<"v">>, <<"YO", "colon">>, <<"m">>>>),
      Saydo \o <<" ">> \o Say(<<<<"otpravj">>, <<"iz">>, <<"bufera">>, <<"v">>, <<"e">>>>),
      Saydo \o <<" ", "m">>,
      <<"c_s", "e", "c_j", "c_d", "c_u", " ">> \o Saydo,
      <<"e", " ">> \o Agent \o <<"dot", "dot", "m">> }

\* the whitelists of the listening runs
ListenWhitelists == {<<>>, <<NewItem(<<"e">>), NewItemIndexed(<<"YO">>, <<1>>)>>}

Main(text, heard, executed) == [fn |-> "main", text |-> text, heard |-> heard, executed |-> executed]

Listening == call # <<>> /\ call.fn = "main"

InitListen ==
    /\ impl = "legacy"
    /\ pc = "listening"
    /\ disable_whitelist \in BOOLEAN
    /\ tracked \in ListenWhitelists
    /\ user_text = None
    /\ cmd = NoCommand
    /\ config = DefaultConfig
    /\ alias_map = EmptyDict
    /\ result_index_map = EmptyDict
    /\ user_target = None
    /\ canonical = None
    /\ result_index = NoInt
    /\ requests = <<>>
    /\ responses = <<>>
    /\ result = FALSE
    /\ logged = <<>>
    /\ written = <<>>
    /\ call = Main(None, 0, <<>>)
    /\ ret = <<>>

listen_frame ==
    <<impl, disable_whitelist, config, tracked, cmd, alias_map, result_index_map, user_target,
      canonical, result_index, requests, responses, result, logged, ret>>

\* `with sr.Microphone() as source: ... recognizer.listen(source, timeout=10, ...)`:
\* WaitTimeoutError continues, any other Exception breaks out of the loop,
\* KeyboardInterrupt is caught by nothing here and ends the program
Main_Listen ==
    /\ Listening /\ pc = "listening"
    /\ call.heard < MaxCaptures
    /\ \E outcome \in {"audio", "wait_timeout", "microphone_error", "keyboard_interrupt"} :
          pc' = CASE outcome = "audio" -> "captured"
                  [] outcome = "wait_timeout" -> "listening"
                  [] outcome = "microphone_error" -> "exited"
                  [] OTHER -> "interrupted"
    /\ UNCHANGED <<listen_frame, user_text, written, call>>

\* the text is logged and searched for a keyword; a command found after the
\* keyword is handed to execute_command
wake(text, fails) ==
    /\ written' = append_line(written, speech_entry(text), fails)
    /\ IF log_raises(fails)
       THEN /\ pc' = "raised"
            /\ call' = Main(text, call.heard + 1, call.executed)
            /\ UNCHANGED user_text
       ELSE IF wake_command(text) # <<>>
       THEN /\ pc' = "start"
            /\ user_text' = wake_command(text)
            /\ call' = Main(text, call.heard + 1, Append(call.executed, call.heard + 1))
       ELSE /\ pc' = "listening"
            /\ call' = Main(text, call.heard + 1, call.executed)
            /\ UNCHANGED user_text

\* recognizer.recognize_google(audio) and the statements up to the call of
\* execute_command: UnknownValueError and RequestError continue,
\* KeyboardInterrupt breaks
Main_Recognize ==
    /\ Listening /\ pc = "captured"
    /\ \/ /\ \E outcome \in {"unknown_value", "request_error", "keyboard_interrupt"} :
               pc' = IF outcome = "keyboard_interrupt" THEN "interrupted" ELSE "listening"
          /\ call' = Main(None, call.heard + 1, call.executed)
          /\ UNCHANGED <<user_text, written>>
       \/ \E text \in ListenTexts, fails \in BOOLEAN : wake(text, fails)
    /\ UNCHANGED listen_frame

\* execute_command has returned: its value is dropped, its locals are gone,
\* and the loop goes round
Main_Continue ==
    /\ Listening /\ pc = "done"
    /\ pc' = "listening"
    /\ cmd' = NoCommand
    /\ alias_map' = EmptyDict
    /\ result_index_map' = EmptyDict
    /\ user_target' = None
    /\ canonical' = None
    /\ result_index' = NoInt
    /\ result' = FALSE
    /\ user_text' = None
    /\ requests' = <<>>
    /\ responses' = <<>>
    /\ UNCHANGED <<impl, disable_whitelist, config, tracked, logged, written, call, ret>>

NextListen ==
    \/ Main_Listen
    \/ Main_Recognize
    \/ ExecuteCommand_Parse
    \/ ExecuteCommand_Load
    \/ ExecuteCommand_Resolve
    \/ ExecuteCommand_Open
    \/ HsCall_OpenReturns
    \/ ExecuteCommand_Intent
    \/ HsCall_LastReturns
    \/ Main_Continue

SpecListen == InitListen /\ [][NextListen]_vars

\* the loop is at a statement and the interpreter runs it; nothing is asked
\* of the microphone, which may stay silent for ever
ListenAdvance == pc \in (Positions \cup {"captured"}) /\ pc' \in (Positions \cup {"listening"}) /\ pc' # pc

FairListen == SpecListen /\ WF_pc(ListenAdvance)


\* C21: a failure while writing the unrecognized-command log or the
\* recognized-speech log is swallowed: nothing is raised, the rejected command
\* still returns failure without a request, and what the loop does with a
\* recognized text depends on the text alone, not on whether the line was written.
C21_LogFailureSwallowed ==
    [][ /\ pc' # "raised"
        /\ logged' # logged => pc' = "done" /\ result' = FALSE /\ requests' = requests
        /\ (Listening /\ call'.heard # call.heard /\ call'.text # None)
              => /\ requests' = requests
                 /\ \/ pc' = "listening" /\ call'.executed = call.executed
                    \/ pc' = "start" /\ call'.executed # call.executed ]_vars

\* no line was written for the text of this iteration, and its command succeeded
C21_Witness ==
    /\ Listening /\ pc = "done" /\ result
    /\ written = <<>>
    /\ requests # <<>>

\* C22: the listening loop ends only by an interruption: whatever an
\* iteration comes to, the loop is capturing again later.
C22_LoopReturnsToCapturing == [](pc # "interrupted" => <>(pc = "listening" \/ pc = "interrupted"))

\* the text holds a wake keyword followed by something that stripping leaves non-empty
Woken(text) ==
    \E k \in DOMAIN keywords :
        \E i \in 1..(Len(text) - Len(keywords[k]) + 1) :
            /\ SubSeq(lower(text), i, i + Len(keywords[k]) - 1) = keywords[k]
            /\ lstrip_chars(strip(SubSeq(text, i + Len(keywords[k]), Len(text))), Punctuation) # <<>>

\* C30: in listening mode execute_command runs, and the daemon is sent a
\* request, only for a recognized text that holds a wake keyword with a
\* non-empty command after it, and no utterance has two executions.
C30_OnlyWokenUtterancesExecute ==
    Listening =>
        /\ \A i \in DOMAIN call.executed :
              /\ call.executed[i] \in 1..call.heard
              /\ \A j \in DOMAIN call.executed : i # j => call.executed[i] # call.executed[j]
        /\ (pc \in Positions) => /\ call.text # None
                                 /\ Woken(call.text)
                                 /\ call.executed # <<>>
                                 /\ call.executed[Len(call.executed)] = call.heard
        /\ (pc \in Positions \ {"done"}) => user_text # <<>>
        /\ requests # <<>> => pc \in Positions

\* one utterance was dropped and the next one is being executed
C30_Witness ==
    /\ Listening /\ pc = "wait_open"
    /\ call.heard = 2 /\ call.executed = <<2>>


\* ---------------------------------------------------------------------------
\* The two dispatchers on one command: agent.execute_command from the parsed
\* command on, then CommandExecutor.execute on the same target and message
\* under the same whitelist and setting.  `ret` keeps what the first one did.
\* ---------------------------------------------------------------------------

\* the name each dispatcher has for the command that sends a message
legacy_intent(intent) == IF intent = "send_message" THEN "type_to_chat" ELSE intent

EquivIntents == {"open_chat_only", "paste_to_chat", "send_message"}
EquivTargets == {<<"E">>, <<"m">>, <<>>}
EquivMessages == {None, <<>>, <<"m">>, <<" ", "m", "\t", "m">>}
EquivWhitelists == {<<>>, <<NewItem(<<"e">>), NewItemIndexed(<<"YO">>, <<1>>)>>}

Equiv(intent, target, message) == [fn |-> "equiv", intent |-> intent, target |-> target, message |-> message]

Comparing == call # <<>> /\ call.fn = "equiv"

InitEquiv ==
    /\ impl = "legacy"
    /\ pc = "parsed"
    /\ disable_whitelist \in BOOLEAN
    /\ tracked \in EquivWhitelists
    /\ call \in {Equiv(i, t, m) : i \in EquivIntents, t \in EquivTargets, m \in EquivMessages}
    /\ cmd = ParsedCommand(legacy_intent(call.intent), call.target, call.message, "telegram")
    /\ user_text = None
    /\ config = DefaultConfig
    /\ alias_map = EmptyDict
    /\ result_index_map = EmptyDict
    /\ user_target = None
    /\ canonical = None
    /\ result_index = NoInt
    /\ requests = <<>>
    /\ responses = <<>>
    /\ result = FALSE
    /\ logged = <<>>
    /\ written = <<>>
    /\ ret = <<>>

\* what execute_command has done when it returns, and whether it could read
\* tracked_chats.json
Outcome ==
    [requests |-> requests, responses |-> responses, result |-> result,
     loaded |-> user_target # None]

\* execute_command has returned; CommandExecutor.execute is handed the same
\* command, with the alias index of chat_resolver.build_alias_map
Equiv_Switch ==
    /\ Comparing /\ Legacy /\ pc = "done"
    /\ ret' = <<Outcome>>
    /\ impl' = "modular"
    /\ pc' = "parsed"
    /\ cmd' = ParsedCommand(call.intent, call.target, call.message, "telegram")
    /\ alias_map' = build_alias_map(tracked).alias_map
    /\ result_index_map' = build_alias_map(tracked).result_index_map
    /\ user_target' = None
    /\ canonical' = None
    /\ result_index' = NoInt
    /\ requests' = <<>>
    /\ responses' = <<>>
    /\ result' = FALSE
    /\ UNCHANGED <<disable_whitelist, config, tracked, user_text, logged, written, call>>

NextEquiv ==
    \/ ExecuteCommand_Load
    \/ ExecuteCommand_Resolve
    \/ ExecuteCommand_Open
    \/ HsCall_OpenReturns
    \/ ExecuteCommand_Intent
    \/ HsCall_LastReturns
    \/ Equiv_Switch
    \/ Executor_GetDriver
    \/ Executor_Resolve
    \/ Action_Execute
    \/ Driver_OpenReturns
    \/ Action_AfterOpen
    \/ Driver_LastReturns

SpecEquiv == InitEquiv /\ [][NextEquiv]_vars

\* the daemon gave the same answers to the calls both runs made
SameResponses(a, b) ==
    \A i \in DOMAIN a \cap DOMAIN b : a[i] = b[i]

\* C29: for the same intent, target, message, whitelist, setting and daemon
\* responses the two dispatchers make the same requests and return the same
\* value, an empty message included.
C29_DispatchersEquivalent ==
    (/\ Comparing /\ Modular /\ pc = "done"
     /\ ret[1].loaded
     /\ SameResponses(responses, ret[1].responses)) =>
        /\ requests = ret[1].requests
        /\ result = ret[1].result

====
